---- MODULE Spec2Model ----
(***************************************************************************)
(* A model of the Robstride CAN scripts.                                   *)
(*                                                                         *)
(* Spec      : the MIT-mode control scripts (fast.py, mit.py,              *)
(*             simultaenousmit.py), one of them chosen by Init.            *)
(* FairSpec  : Spec with fast.py's own statements always running on.       *)
(* SpecParam : the param-RPC helpers of findangles.py / findmotorid.py     *)
(*             (flush_bus, safe_write_param, safe_read_param,              *)
(*             safe_disable, the scan body).                               *)
(* SpecSweep : the multi-motor procedures built on them (findangles.py's   *)
(*             main block, findmotorid.py's scan loop), one step per call. *)
(*                                                                         *)
(* SpecCodec : scale_value_to_u16, unscale_u16_to_float and the arbitration *)
(*             ID of send_control_command, applied to inputs of Init.      *)
(* SpecZero  : setpermzeros.py's main().                                   *)
(*                                                                         *)
(* In the control scripts physical quantities are fixed-point integers;    *)
(* the unit of each range is noted where the range is defined.  SpecCodec  *)
(* computes on binary64 floats as the interpreter does.  A                 *)
(* KeyboardInterrupt is an asynchronous exception: it can be raised at any *)
(* program position.                                                       *)
(***************************************************************************)
EXTENDS Integers, Sequences, FiniteSets, TLC

VARIABLES
    script,     \* which script runs
    pc,         \* position of the script's main thread
    exc,        \* the exception propagating (or escaped at "exit"); "none" otherwise
    bus,        \* "unopened" | "open" | "shutdown"
    sent,       \* frames accepted by bus.send, in order
    rxq,        \* inbound frames queued in the socket and not yet received
    msg,        \* read_feedback's local msg: what the last bus.recv returned
    current_motor_state,
    history,
    tick,       \* iterations of the control loop started
    idx,        \* position in a for-loop over motors
    target_pos, \* simultaenousmit.py: the position the operator typed (1/100 rad)
    intr,       \* KeyboardInterrupts delivered so far
    intrInExit, \* a KeyboardInterrupt was delivered inside a finally block
    \* --- the param helpers (findangles.py, findmotorid.py) ---
    op,         \* the helper being executed: "read" | "write" | "disable" | "scan" | "none"
    retries,    \* its retries argument
    attempt,    \* its loop variable
    reports,    \* the attempt numbers of the "[ERROR] ... attempt n failed" lines printed
    failed_msg, \* the "[FAILED] Could not ..." line was printed
    result,     \* the value returned: <<>> for None, <<v>> for a float v
    outcomes,   \* what the client primitive did at each invocation in this call
    oldAtStart, \* frames queued when the current attempt began
    oldLeft,    \* how many of those are still queued (they are the head of rxq)
    staleReturned, \* the primitive consumed a frame queued before its attempt began
    calls,      \* helper calls made so far
    returned,   \* what the calls made so far returned
    \* --- the configuration a script is run with ---
    type_map,   \* MOTOR_ID_TO_TYPE_MAP
    type_params, \* MOTOR_TYPE_PARAMS
    \* --- further state of fast.py ---
    sleep_time, \* the sign of sleep_time (line 134) in the last cadence step
    expected,   \* the decode of the last usable frame that bus.recv returned
    \* --- the sweeps (findangles.py main, findmotorid.py scan loop) ---
    present,    \* the motor IDs that answer on the bus
    visited,    \* the motor IDs each phase of findangles.py has handled, in order
    passes,     \* polling passes completed
    probed,     \* the IDs the scan has probed, in order
    found_ids,
    \* --- the unit codec and the control frame's arbitration ID ---
    c_min,      \* v_min, a float
    c_max,      \* v_max, a float
    c_value,    \* value, a float
    c_u16,      \* what scale_value_to_u16(value, v_min, v_max) returned
    c_float,    \* what unscale_u16_to_float(c_u16, v_min, v_max) returned
    c_torque_u16,      \* send_control_command's torque_u16
    c_motor_id,        \* its motor_id
    c_arbitration_id,  \* its arbitration_id
    \* --- setpermzeros.py ---
    client_calls  \* the client calls made, in order, each with how it ended

ctlvars == <<script, pc, exc, bus, sent, rxq, msg, current_motor_state,
             history, tick, idx, target_pos, intr, intrInExit>>

\* state of the control scripts that the param helpers never touch
conly == <<bus, sent, msg, current_motor_state, history, tick, idx, target_pos,
           intr, intrInExit>>

pvars == <<op, retries, attempt, reports, failed_msg, result, outcomes,
           oldAtStart, oldLeft, staleReturned, calls, returned>>

cfgvars == <<type_map, type_params>>

fvars == <<sleep_time, expected>>

svars == <<present, visited, passes, probed, found_ids>>

kvars == <<c_min, c_max, c_value, c_u16, c_float, c_torque_u16, c_motor_id,
           c_arbitration_id>>

zvars == <<client_calls>>

vars == <<ctlvars, pvars, cfgvars, fvars, svars, kvars, zvars>>

---------------------------------------------------------------------------
(* Bounds of the model *)

MaxTicks == 2
MaxInbound == 1
MaxQueue == 2
MaxInterrupts == 1
MaxRetries == 3
MaxCalls == 2
MaxPasses == 1

---------------------------------------------------------------------------
(* Protocol constants and configuration *)

MUX_ENABLE == 3
MUX_CONTROL == 1
MUX_DISABLE == 4
HOST_ID == 253
FAST_MOTOR_ID == 1
MIT_MOTOR_ID == 20
MOTORS_TO_TEST == <<2, 5>>

\* gains and targets, in the unit of their range
FAST_KP_GAIN == 20
FAST_KD_GAIN == 1
MIT_KP_GAIN == 60
MIT_KD_GAIN == 4
SIM_KP_GAIN == 3
SIM_KD_GAIN == 1

\* MOTOR_TYPE_PARAMS.  Units: P and V in 1/100, T in 1/10, KP and KD in 1.
MOTOR_TYPE_PARAMS ==
    [O2 |-> [P_MIN |-> -1257, P_MAX |-> 1257, V_MIN |-> -4400, V_MAX |-> 4400,
             T_MIN |-> -170, T_MAX |-> 170, KP_MIN |-> 0, KP_MAX |-> 500,
             KD_MIN |-> 0, KD_MAX |-> 5],
     O3 |-> [P_MIN |-> -1257, P_MAX |-> 1257, V_MIN |-> -2000, V_MAX |-> 2000,
             T_MIN |-> -600, T_MAX |-> 600, KP_MIN |-> 0, KP_MAX |-> 5000,
             KD_MIN |-> 0, KD_MAX |-> 100],
     O5 |-> [P_MIN |-> -1257, P_MAX |-> 1257, V_MIN |-> -5000, V_MAX |-> 5000,
             T_MIN |-> -55, T_MAX |-> 55, KP_MIN |-> 0, KP_MAX |-> 500,
             KD_MIN |-> 0, KD_MAX |-> 5]]

U16 == 65535
Shift24 == 16777216

---------------------------------------------------------------------------
(* UnitCodec *)

np_clip(value, v_min, v_max) ==
    IF value < v_min THEN v_min ELSE IF value > v_max THEN v_max ELSE value

\* int(65535.0 * (clip(value) - v_min) / (v_max - v_min)) on the fixed-point
\* values the control scripts send; the scaled value is never negative, so
\* int() is the floor.  (The float computation, rounding included, is
\* scale_value_to_u16_f64 below.)
scale_value_to_u16(value, v_min, v_max) ==
    (U16 * (np_clip(value, v_min, v_max) - v_min)) \div (v_max - v_min)

\* (val / 65535) * (v_max - v_min) + v_min, as the numerator of a fraction
\* with denominator 65535 (exact).
unscale_u16_to_float(val_u16, v_min, v_max) ==
    val_u16 * (v_max - v_min) + v_min * U16

\* scale_value_to_u16 with v_max = v_min divides zero by zero: it raises
\* (ZeroDivisionError with Python floats; with numpy floats the quotient is nan
\* and int(nan) raises ValueError)
scale_value_to_u16_raises(v_min, v_max) == v_max = v_min

\* send_control_command raises before bus.send when one of the five ranges of
\* params is degenerate (lines 50-54)
send_control_command_raises(params) ==
    \/ scale_value_to_u16_raises(params.P_MIN, params.P_MAX)
    \/ scale_value_to_u16_raises(params.V_MIN, params.V_MAX)
    \/ scale_value_to_u16_raises(params.KP_MIN, params.KP_MAX)
    \/ scale_value_to_u16_raises(params.KD_MIN, params.KD_MAX)
    \/ scale_value_to_u16_raises(params.T_MIN, params.T_MAX)

---------------------------------------------------------------------------
(* Python floats: IEEE-754 binary64, round to nearest, ties to even.        *)
(* A float is [neg, m, e] with value (-1)^neg * m * 2^e, where m is a       *)
(* natural number of at most 53 bits held as a little-endian sequence of    *)
(* limbs (TLC's integers are too narrow for a 53-bit significand).  The     *)
(* values the codec meets are far from the subnormal and overflow ranges.   *)

LimbBits == 15
LimbBase == 32768
SignificandBits == 53

RECURSIVE BTrim(_)
BTrim(a) ==
    IF a = <<>> THEN a
    ELSE IF a[Len(a)] = 0 THEN BTrim(SubSeq(a, 1, Len(a) - 1)) ELSE a

RECURSIVE BFromInt(_)
BFromInt(n) == IF n = 0 THEN <<>> ELSE <<n % LimbBase>> \o BFromInt(n \div LimbBase)

RECURSIVE BToInt(_)
BToInt(a) == IF a = <<>> THEN 0 ELSE a[1] + LimbBase * BToInt(Tail(a))

BHead(a) == IF a = <<>> THEN 0 ELSE a[1]
BTail(a) == IF a = <<>> THEN a ELSE Tail(a)

RECURSIVE BAddC(_, _, _)
BAddC(a, b, c) ==
    IF a = <<>> /\ b = <<>> THEN BFromInt(c)
    ELSE LET x == BHead(a) + BHead(b) + c
         IN  <<x % LimbBase>> \o BAddC(BTail(a), BTail(b), x \div LimbBase)

BAdd(a, b) == BAddC(a, b, 0)

\* a - b for a >= b
RECURSIVE BSubC(_, _, _)
BSubC(a, b, c) ==
    IF a = <<>> THEN <<>>
    ELSE LET x == a[1] - BHead(b) - c
         IN  <<x % LimbBase>> \o BSubC(Tail(a), BTail(b), IF x < 0 THEN 1 ELSE 0)

BSub(a, b) == BTrim(BSubC(a, b, 0))

\* -1, 0 or 1 as a < b, a = b or a > b
RECURSIVE BCmp(_, _)
BCmp(a, b) ==
    IF Len(a) # Len(b) THEN (IF Len(a) < Len(b) THEN -1 ELSE 1)
    ELSE IF a = <<>> THEN 0
    ELSE LET n == Len(a)
         IN  IF a[n] # b[n] THEN (IF a[n] < b[n] THEN -1 ELSE 1)
             ELSE BCmp(SubSeq(a, 1, n - 1), SubSeq(b, 1, n - 1))

\* a * k for 0 <= k < 2^16
RECURSIVE BMulSmallC(_, _, _)
BMulSmallC(a, k, c) ==
    IF a = <<>> THEN BFromInt(c)
    ELSE LET x == a[1] * k + c
         IN  <<x % LimbBase>> \o BMulSmallC(Tail(a), k, x \div LimbBase)

BMulSmall(a, k) == IF k = 0 THEN <<>> ELSE BMulSmallC(a, k, 0)

RECURSIVE BMul(_, _)
BMul(a, b) ==
    IF a = <<>> \/ b = <<>> THEN <<>>
    ELSE LET r == BMul(a, Tail(b))
         IN  BAdd(BMulSmall(a, b[1]), IF r = <<>> THEN r ELSE <<0>> \o r)

\* a * 2^k
BShl(a, k) ==
    IF a = <<>> THEN a
    ELSE [i \in 1..(k \div LimbBits) |-> 0] \o BMulSmall(a, 2^(k % LimbBits))

\* quotient and remainder of a by d, 0 < d < 2^16
RECURSIVE BDivSmall(_, _)
BDivSmall(a, d) ==
    IF a = <<>> THEN [q |-> <<>>, r |-> 0]
    ELSE LET hi == BDivSmall(Tail(a), d)
             x == hi.r * LimbBase + a[1]
         IN  [q |-> <<x \div d>> \o hi.q, r |-> x % d]

\* floor(a / 2^k)
BShr(a, k) ==
    IF k \div LimbBits >= Len(a) THEN <<>>
    ELSE BTrim(BDivSmall(SubSeq(a, k \div LimbBits + 1, Len(a)), 2^(k % LimbBits)).q)

\* number of bits of a
BitLen(a) ==
    IF a = <<>> THEN 0
    ELSE LimbBits * (Len(a) - 1)
         + (CHOOSE i \in 1..LimbBits : 2^(i - 1) <= a[Len(a)] /\ a[Len(a)] < 2^i)

BOdd(a) == a # <<>> /\ a[1] % 2 = 1

FZero == [neg |-> FALSE, m |-> <<>>, e |-> 0]

\* the float nearest to (-1)^neg * (m + s) * 2^e, where 0 < s < 1 when sticky
\* and s = 0 otherwise (sticky only with m of more than 54 bits)
FRound(neg, m, sticky, e) ==
    LET d == BitLen(m) - SignificandBits
    IN  IF m = <<>> THEN FZero
        ELSE IF d <= 0 THEN [neg |-> neg, m |-> m, e |-> e]
        ELSE LET hi == BShr(m, d)
                 c == BCmp(BSub(m, BShl(hi, d)), BShl(<<1>>, d - 1))
                 up == c > 0 \/ (c = 0 /\ (sticky \/ BOdd(hi)))
             IN  [neg |-> neg, m |-> IF up THEN BAdd(hi, <<1>>) ELSE hi, e |-> e + d]

Min2(x, y) == IF x < y THEN x ELSE y
Max2(x, y) == IF x > y THEN x ELSE y

\* a + b exactly (not rounded)
FExactAdd(a, b) ==
    IF a.m = <<>> THEN b
    ELSE IF b.m = <<>> THEN a
    ELSE LET e == Min2(a.e, b.e)
             x == BShl(a.m, a.e - e)
             y == BShl(b.m, b.e - e)
             c == BCmp(x, y)
         IN  IF a.neg = b.neg THEN [neg |-> a.neg, m |-> BAdd(x, y), e |-> e]
             ELSE IF c = 0 THEN FZero
             ELSE IF c > 0 THEN [neg |-> a.neg, m |-> BSub(x, y), e |-> e]
             ELSE [neg |-> b.neg, m |-> BSub(y, x), e |-> e]

FNeg(a) == IF a.m = <<>> THEN a ELSE [a EXCEPT !.neg = ~a.neg]

FExactSub(a, b) == FExactAdd(a, FNeg(b))

FExactMul(a, b) ==
    IF a.m = <<>> \/ b.m = <<>> THEN FZero
    ELSE [neg |-> a.neg # b.neg, m |-> BMul(a.m, b.m), e |-> a.e + b.e]

FRoundOf(x) == FRound(x.neg, x.m, FALSE, x.e)

\* the float operators +, -, *
FAdd(a, b) == FRoundOf(FExactAdd(a, b))
FSub(a, b) == FRoundOf(FExactSub(a, b))
FMul(a, b) == FRoundOf(FExactMul(a, b))

DivSteps == 56

\* DivSteps steps of long division of r by d, r < 2 * d
RECURSIVE DivLoop(_, _, _, _)
DivLoop(r, d, q, n) ==
    IF n = 0 \/ BitLen(q) >= DivSteps THEN [q |-> q, r |-> r]
    ELSE LET ge == BCmp(r, d) >= 0
             r1 == IF ge THEN BSub(r, d) ELSE r
         IN  DivLoop(BAdd(r1, r1), d, BAdd(BAdd(q, q), IF ge THEN <<1>> ELSE <<>>), n - 1)

\* the float operator /, for b # 0
FDiv(a, b) ==
    IF a.m = <<>> THEN FZero
    ELSE LET ln == BitLen(a.m)
             ld == BitLen(b.m)
             sa == Max2(0, ld - ln)
             sb == Max2(0, ln - ld)
             qr == DivLoop(BShl(a.m, sa), BShl(b.m, sb), <<>>, DivSteps)
         IN  FRound(a.neg # b.neg, qr.q, qr.r # <<>>,
                    a.e - b.e + sb - sa - (DivSteps - 1))

\* -1, 0 or 1 as a < b, a = b or a > b
FCmp(a, b) ==
    LET x == FExactSub(a, b)
    IN  IF x.m = <<>> THEN 0 ELSE IF x.neg THEN -1 ELSE 1

FAbs(a) == [a EXCEPT !.neg = FALSE]

\* float(n) for an int n
FFromInt(n) == [neg |-> n < 0, m |-> BFromInt(IF n < 0 THEN -n ELSE n), e |-> 0]

\* the float a decimal literal n/d denotes (d a power of ten)
FLiteral(n, d) == FDiv(FFromInt(n), FFromInt(d))

\* int(x): truncation toward zero
FInt(x) ==
    LET mag == IF x.e >= 0 THEN BToInt(BShl(x.m, x.e)) ELSE BToInt(BShr(x.m, -x.e))
    IN  IF x.neg THEN -mag ELSE mag

\* np.clip without its upper bound
np_clip_f64_LowerOnly(value, v_min, v_max) ==
    IF FCmp(value, v_min) < 0 THEN v_min ELSE value

\* np.clip(value, v_min, v_max) = minimum(maximum(value, v_min), v_max)
np_clip_f64(value, v_min, v_max) ==
    LET lower == IF FCmp(value, v_min) < 0 THEN v_min ELSE value
    IN  IF FCmp(lower, v_max) > 0 THEN v_max ELSE lower

F65535 == FFromInt(U16)

\* scale_value_to_u16 on floats, operation by operation:
\* int(65535.0 * (np.clip(value, v_min, v_max) - v_min) / (v_max - v_min))
scale_value_to_u16_f64(value, v_min, v_max) ==
    FInt(FDiv(FMul(F65535, FSub(np_clip_f64(value, v_min, v_max), v_min)),
              FSub(v_max, v_min)))

\* unscale_u16_to_float on floats, operation by operation:
\* (float(val_u16) / 65535.0) * (v_max - v_min) + v_min
unscale_u16_to_float_f64(val_u16, v_min, v_max) ==
    FAdd(FMul(FDiv(FFromInt(val_u16), F65535), FSub(v_max, v_min)), v_min)

---------------------------------------------------------------------------
(* FrameCodec *)

\* struct.pack('>H', x)
pack_H(x) == <<x \div 256, x % 256>>

\* struct.unpack('>H', data[i:i+2]) raises struct.error unless the slice
\* holds two bytes
unpack_raises(data, i) == Len(data) < i + 2

\* struct.unpack('>H', data[i:i+2])[0]
unpack_H(data, i) == data[i + 1] * 256 + data[i + 2]

Zero8 == <<0, 0, 0, 0, 0, 0, 0, 0>>

\* can.Message(arbitration_id=(mux << 24) | (HOST_ID << 8) | motor, dlc=8)
CommandFrame(mux, motor_id) ==
    [arbitration_id |-> mux * Shift24 + HOST_ID * 256 + motor_id, data |-> Zero8]

\* a | b for naturals
RECURSIVE BitOr(_, _)
BitOr(a, b) ==
    IF a = 0 THEN b
    ELSE IF b = 0 THEN a
    ELSE (IF a % 2 = 1 \/ b % 2 = 1 THEN 1 ELSE 0) + 2 * BitOr(a \div 2, b \div 2)

\* the arbitration_id with the torque code shifted by 4 bits and the motor
\* ID not masked
ControlArbitrationId_Overlap(torque_u16, motor_id) ==
    LET mux_part == (MUX_CONTROL % 256) * Shift24
        torque_part == (torque_u16 % 65536) * 16
    IN  BitOr(BitOr(mux_part, torque_part), motor_id)

\* the arbitration_id send_control_command builds (x & 0xFF is x % 256,
\* x << 8 is x * 256)
ControlArbitrationId(torque_u16, motor_id) ==
    LET mux_part == (MUX_CONTROL % 256) * Shift24
        torque_part == (torque_u16 % 65536) * 256
        id_part == motor_id % 256
    IN  BitOr(BitOr(mux_part, torque_part), id_part)

\* the frame send_control_command builds
ControlFrame(motor_id, pos, vel, kp, kd, torque, params) ==
    LET angle_u16 == scale_value_to_u16(pos, params.P_MIN, params.P_MAX)
        vel_u16 == scale_value_to_u16(vel, params.V_MIN, params.V_MAX)
        kp_u16 == scale_value_to_u16(kp, params.KP_MIN, params.KP_MAX)
        kd_u16 == scale_value_to_u16(kd, params.KD_MIN, params.KD_MAX)
        torque_u16 == scale_value_to_u16(torque, params.T_MIN, params.T_MAX)
    IN  [arbitration_id |-> ControlArbitrationId(torque_u16, motor_id),
         data |-> pack_H(angle_u16) \o pack_H(vel_u16) \o pack_H(kp_u16) \o pack_H(kd_u16)]

MuxOf(frame) == frame.arbitration_id \div Shift24
MotorOf(frame) == frame.arbitration_id % 256

---------------------------------------------------------------------------
(* Inbound frames the bus can deliver while fast.py polls motor 1 *)

\* bus.recv returned None
NoMsg == [none |-> TRUE]

FeedbackFrame(err, hi, lo, data) ==
    [is_error_frame |-> err, arbitration_id |-> 2 * Shift24 + hi * 256 + lo,
     data |-> data]

FrameSet ==
    { FeedbackFrame(FALSE, FAST_MOTOR_ID, HOST_ID, <<255, 255, 128, 0, 0, 0, 0, 0>>),
      FeedbackFrame(FALSE, HOST_ID, FAST_MOTOR_ID, <<64, 0, 192, 0, 0, 0, 0, 0>>),
      FeedbackFrame(FALSE, 7, HOST_ID, <<1, 2, 3, 4, 0, 0, 0, 0>>),
      FeedbackFrame(TRUE, FAST_MOTOR_ID, HOST_ID, <<0, 1, 0, 1, 0, 0, 0, 0>>),
      FeedbackFrame(FALSE, FAST_MOTOR_ID, HOST_ID, <<0, 7, 9>>) }

---------------------------------------------------------------------------
(* fast.py: the 1 kHz control loop *)

FAST_MOTOR_ID_TO_TYPE_MAP ==
    [m \in {16, 17, 18, 19} |-> "O3"] @@ [m \in {1, 2, 127} |-> "O2"] @@ (5 :> "O5")

\* lines 88-89: params = MOTOR_TYPE_PARAMS[MOTOR_ID_TO_TYPE_MAP.get(MOTOR_ID)]
FastParams == type_params[type_map[FAST_MOTOR_ID]]

\* elapsed_total at the k-th iteration, in ms: the loop is sampled at quarter
\* periods of the 1 Hz sine
ElapsedAt(k) == (k - 1) * 250

\* SINE_AMPLITUDE * sin(2 pi f t), in 1/100 rad
TargetPos(k) == <<0, 100, 0, -100>>[((k - 1) % 4) + 1]

\* SINE_AMPLITUDE * 2 pi f * cos(2 pi f t), in 1/100 rad/s
TargetVel(k) == <<628, 0, -628, 0>>[((k - 1) % 4) + 1]

FastInnerTry == {"f_unpack", "f_set_pos", "f_set_vel", "f_set_time"}

FastRunning ==
    {"f_loop", "f_recv", "f_send", "f_rec_time", "f_rec_target", "f_rec_actual",
     "f_cadence", "f_sleep"} \cup FastInnerTry

FastTry == {"f_enable", "f_settle"} \cup (FastRunning \ FastInnerTry)

FastFinally == {"f_disable", "f_disable_settle", "f_shutdown"}

\* the ID compared with MOTOR_ID when only bits 8-15 are looked at
ExtractedMotorId_NoFallback(arbitration_id, motor_id) ==
    (arbitration_id \div 256) % 256

\* the ID read_feedback compares with MOTOR_ID (lines 71-73)
ExtractedMotorId(arbitration_id, motor_id) ==
    LET first == (arbitration_id \div 256) % 256
    IN  IF first # motor_id THEN arbitration_id % 256 ELSE first

\* FastEnable with the enable send wrapped in its own "try/except: pass": a
\* failed send is swallowed and the script goes on to the loop
FastEnable_Swallowed ==
    /\ script = "fast" /\ pc = "f_enable"
    /\ \/ sent' = Append(sent, CommandFrame(MUX_ENABLE, FAST_MOTOR_ID))
       \/ UNCHANGED sent
    /\ pc' = "f_settle"
    /\ UNCHANGED <<pvars, cfgvars, fvars, svars, kvars, zvars>>
    /\ UNCHANGED <<script, exc, bus, rxq, msg, current_motor_state, history, tick,
                   idx, target_pos, intr, intrInExit>>

\* lines 88-94: the params lookup (a KeyError when MOTOR_ID has no type) and
\* can.interface.Bus(...), both outside the try
FastLookup ==
    /\ script = "fast" /\ pc = "f_lookup"
    /\ IF FAST_MOTOR_ID \notin DOMAIN type_map
       THEN exc' = "KeyError" /\ pc' = "exit" /\ UNCHANGED bus
       ELSE \/ bus' = "open" /\ pc' = "f_enable" /\ UNCHANGED exc
            \/ exc' = "CanInitializationError" /\ pc' = "exit" /\ UNCHANGED bus
    /\ UNCHANGED <<pvars, cfgvars, fvars, svars, kvars, zvars>>
    /\ UNCHANGED <<script, sent, rxq, msg, current_motor_state, history, tick, idx,
                   target_pos, intr, intrInExit>>

\* line 98: bus.send(enable); a CanError is caught by "except Exception"
FastEnable ==
    /\ script = "fast" /\ pc = "f_enable"
    /\ \/ /\ sent' = Append(sent, CommandFrame(MUX_ENABLE, FAST_MOTOR_ID))
          /\ pc' = "f_settle"
       \/ /\ pc' = "f_disable"
          /\ UNCHANGED sent
    /\ UNCHANGED <<pvars, cfgvars, fvars, svars, kvars, zvars>>
    /\ UNCHANGED <<script, exc, bus, rxq, msg, current_motor_state, history, tick,
                   idx, target_pos, intr, intrInExit>>

\* line 99: time.sleep(1); lines 102-103
FastSettle ==
    /\ script = "fast" /\ pc = "f_settle"
    /\ pc' = "f_loop"
    /\ UNCHANGED <<pvars, cfgvars, fvars, svars, kvars, zvars>>
    /\ UNCHANGED <<script, exc, bus, sent, rxq, msg, current_motor_state, history,
                   tick, idx, target_pos, intr, intrInExit>>

\* lines 105-107: the head of one iteration
FastLoop ==
    /\ script = "fast" /\ pc = "f_loop"
    /\ tick < MaxTicks
    /\ tick' = tick + 1
    /\ pc' = "f_recv"
    /\ UNCHANGED <<pvars, cfgvars, fvars, svars, kvars, zvars>>
    /\ UNCHANGED <<script, exc, bus, sent, rxq, msg, current_motor_state, history,
                   idx, target_pos, intr, intrInExit>>

\* a frame read_feedback has to decode: no error flag, MOTOR_ID in bits 8-15
\* or in bits 0-7 of the arbitration ID, and the four data bytes of p and v
Usable(frame) ==
    /\ ~frame.is_error_frame
    /\ \/ (frame.arbitration_id \div 256) % 256 = FAST_MOTOR_ID
       \/ frame.arbitration_id % 256 = FAST_MOTOR_ID
    /\ Len(frame.data) >= 4

\* what lines 77-84 store for a usable frame received in iteration now
Decoded(frame, now) ==
    [pos |-> unscale_u16_to_float(frame.data[1] * 256 + frame.data[2],
                                  FastParams.P_MIN, FastParams.P_MAX),
     vel |-> unscale_u16_to_float(frame.data[3] * 256 + frame.data[4],
                                  FastParams.V_MIN, FastParams.V_MAX),
     last_update |-> now]

\* read_feedback without line 68: an error frame is treated as any other frame
FastRecv_NoErrorCheck ==
    /\ script = "fast" /\ pc = "f_recv"
    /\ IF rxq = <<>>
       THEN /\ pc' = "f_send"
            /\ msg' = NoMsg
            /\ UNCHANGED <<rxq, expected>>
       ELSE /\ rxq' = Tail(rxq)
            /\ msg' = Head(rxq)
            /\ expected' = IF Usable(Head(rxq)) THEN Decoded(Head(rxq), tick)
                           ELSE expected
            /\ IF ExtractedMotorId(Head(rxq).arbitration_id, FAST_MOTOR_ID)
                      = FAST_MOTOR_ID
               THEN pc' = "f_unpack"
               ELSE pc' = "f_recv"
    /\ UNCHANGED <<pvars, cfgvars, sleep_time, svars, kvars, zvars>>
    /\ UNCHANGED <<script, exc, bus, sent, current_motor_state, history, tick, idx,
                   target_pos, intr, intrInExit>>

\* read_feedback in a loop that sends a control frame only in the iterations
\* that received feedback: on an empty queue the send is skipped
FastRecv_SkipsWhenEmpty ==
    /\ script = "fast" /\ pc = "f_recv"
    /\ IF rxq = <<>>
       THEN /\ pc' = IF msg = NoMsg THEN "f_rec_time" ELSE "f_send"
            /\ msg' = NoMsg
            /\ UNCHANGED <<rxq, expected>>
       ELSE /\ rxq' = Tail(rxq)
            /\ msg' = Head(rxq)
            /\ expected' = IF Usable(Head(rxq)) THEN Decoded(Head(rxq), tick)
                           ELSE expected
            /\ IF Head(rxq).is_error_frame
               THEN pc' = "f_recv"
               ELSE IF ExtractedMotorId(Head(rxq).arbitration_id, FAST_MOTOR_ID)
                           = FAST_MOTOR_ID
                    THEN pc' = "f_unpack"
                    ELSE pc' = "f_recv"
    /\ UNCHANGED <<pvars, cfgvars, sleep_time, svars, kvars, zvars>>
    /\ UNCHANGED <<script, exc, bus, sent, current_motor_state, history, tick, idx,
                   target_pos, intr, intrInExit>>

\* read_feedback, lines 65-75: one recv(timeout=0) and the identity check
FastRecv ==
    /\ script = "fast" /\ pc = "f_recv"
    /\ IF rxq = <<>>
       THEN /\ pc' = "f_send"
            /\ msg' = NoMsg
            /\ UNCHANGED <<rxq, expected>>
       ELSE /\ rxq' = Tail(rxq)
            /\ msg' = Head(rxq)
            /\ expected' = IF Usable(Head(rxq)) THEN Decoded(Head(rxq), tick)
                           ELSE expected
            /\ IF Head(rxq).is_error_frame
               THEN pc' = "f_recv"
               ELSE IF ExtractedMotorId(Head(rxq).arbitration_id, FAST_MOTOR_ID)
                           = FAST_MOTOR_ID
                    THEN pc' = "f_unpack"
                    ELSE pc' = "f_recv"
    /\ UNCHANGED <<pvars, cfgvars, sleep_time, svars, kvars, zvars>>
    /\ UNCHANGED <<script, exc, bus, sent, current_motor_state, history, tick, idx,
                   target_pos, intr, intrInExit>>

p_raw == unpack_H(msg.data, 0)
v_raw == unpack_H(msg.data, 2)

\* read_feedback that unpacks v_raw only after it has stored pos: a payload
\* of two or three bytes gets as far as line 82
FastUnpack_Late ==
    /\ script = "fast" /\ pc = "f_unpack"
    /\ IF unpack_raises(msg.data, 0)
       THEN pc' = "f_recv"
       ELSE pc' = "f_set_pos"
    /\ UNCHANGED <<pvars, cfgvars, fvars, svars, kvars, zvars>>
    /\ UNCHANGED <<script, exc, bus, sent, rxq, msg, current_motor_state, history, tick,
                   idx, target_pos, intr, intrInExit>>

\* lines 77-80: a struct.error is swallowed by the bare except
FastUnpack ==
    /\ script = "fast" /\ pc = "f_unpack"
    /\ IF unpack_raises(msg.data, 0) \/ unpack_raises(msg.data, 2)
       THEN pc' = "f_recv"
       ELSE pc' = "f_set_pos"
    /\ UNCHANGED <<pvars, cfgvars, fvars, svars, kvars, zvars>>
    /\ UNCHANGED <<script, exc, bus, sent, rxq, msg, current_motor_state, history, tick,
                   idx, target_pos, intr, intrInExit>>

\* line 82
FastSetPos ==
    /\ script = "fast" /\ pc = "f_set_pos"
    /\ current_motor_state' =
           [current_motor_state EXCEPT
               !.pos = unscale_u16_to_float(p_raw, FastParams.P_MIN, FastParams.P_MAX)]
    /\ pc' = "f_set_vel"
    /\ UNCHANGED <<pvars, cfgvars, fvars, svars, kvars, zvars>>
    /\ UNCHANGED <<script, exc, bus, sent, rxq, msg, history, tick, idx, target_pos, intr,
                   intrInExit>>

\* line 83
FastSetVel ==
    /\ script = "fast" /\ pc = "f_set_vel"
    /\ current_motor_state' =
           [current_motor_state EXCEPT
               !.vel = unscale_u16_to_float(v_raw, FastParams.V_MIN, FastParams.V_MAX)]
    /\ pc' = "f_set_time"
    /\ UNCHANGED <<pvars, cfgvars, fvars, svars, kvars, zvars>>
    /\ UNCHANGED <<script, exc, bus, sent, rxq, msg, history, tick, idx, target_pos, intr,
                   intrInExit>>

\* line 84: time.time() is read as the iteration number
FastSetTime ==
    /\ script = "fast" /\ pc = "f_set_time"
    /\ current_motor_state' = [current_motor_state EXCEPT !.last_update = tick]
    /\ pc' = "f_recv"
    /\ UNCHANGED <<pvars, cfgvars, fvars, svars, kvars, zvars>>
    /\ UNCHANGED <<script, exc, bus, sent, rxq, msg, history, tick, idx, target_pos, intr, intrInExit>>

\* lines 113-117: the target and send_control_command; an exception of the
\* codec or a CanError of bus.send is caught by "except Exception"
FastSend ==
    /\ script = "fast" /\ pc = "f_send"
    /\ \/ /\ ~send_control_command_raises(FastParams)
          /\ sent' = Append(sent, ControlFrame(FAST_MOTOR_ID, TargetPos(tick),
                                 TargetVel(tick), FAST_KP_GAIN, FAST_KD_GAIN, 0,
                                 FastParams))
          /\ pc' = "f_rec_time"
       \/ /\ pc' = "f_disable"
          /\ UNCHANGED sent
    /\ UNCHANGED <<pvars, cfgvars, fvars, svars, kvars, zvars>>
    /\ UNCHANGED <<script, exc, bus, rxq, msg, current_motor_state, history, tick,
                   idx, target_pos, intr, intrInExit>>

\* line 120
FastRecTime ==
    /\ script = "fast" /\ pc = "f_rec_time"
    /\ history' = [history EXCEPT !.time = Append(@, ElapsedAt(tick))]
    /\ pc' = "f_rec_target"
    /\ UNCHANGED <<pvars, cfgvars, fvars, svars, kvars, zvars>>
    /\ UNCHANGED <<script, exc, bus, sent, rxq, msg, current_motor_state, tick, idx,
                   target_pos, intr, intrInExit>>

\* line 121
FastRecTarget ==
    /\ script = "fast" /\ pc = "f_rec_target"
    /\ history' = [history EXCEPT !.target = Append(@, TargetPos(tick))]
    /\ pc' = "f_rec_actual"
    /\ UNCHANGED <<pvars, cfgvars, fvars, svars, kvars, zvars>>
    /\ UNCHANGED <<script, exc, bus, sent, rxq, msg, current_motor_state, tick, idx,
                   target_pos, intr, intrInExit>>

\* line 122
FastRecActual ==
    /\ script = "fast" /\ pc = "f_rec_actual"
    /\ history' = [history EXCEPT !.actual = Append(@, current_motor_state.pos)]
    /\ pc' = "f_cadence"
    /\ UNCHANGED <<pvars, cfgvars, fvars, svars, kvars, zvars>>
    /\ UNCHANGED <<script, exc, bus, sent, rxq, msg, current_motor_state, tick, idx,
                   target_pos, intr, intrInExit>>

\* what DT - process_duration can be: negative (the iteration overran the
\* period), zero, positive
SleepTimes == {-1, 0, 1}

\* a cadence step that makes up for an overrun by sending the missed frame at
\* once
FastCadence_CatchUp ==
    /\ script = "fast" /\ pc = "f_cadence"
    /\ \E s \in SleepTimes :
           /\ sleep_time' = s
           /\ pc' = IF s > 0 THEN "f_sleep" ELSE IF s < 0 THEN "f_send" ELSE "f_loop"
    /\ UNCHANGED <<pvars, cfgvars, expected, svars, kvars, zvars>>
    /\ UNCHANGED <<script, exc, bus, sent, rxq, msg, current_motor_state, history,
                   tick, idx, target_pos, intr, intrInExit>>

\* lines 125-135: sleep_time = DT - process_duration; sleep only if positive
FastCadence ==
    /\ script = "fast" /\ pc = "f_cadence"
    /\ \E s \in SleepTimes :
           /\ sleep_time' = s
           /\ pc' = IF s > 0 THEN "f_sleep" ELSE "f_loop"
    /\ UNCHANGED <<pvars, cfgvars, expected, svars, kvars, zvars>>
    /\ UNCHANGED <<script, exc, bus, sent, rxq, msg, current_motor_state, history,
                   tick, idx, target_pos, intr, intrInExit>>

\* line 136: time.sleep(sleep_time)
FastSleep ==
    /\ script = "fast" /\ pc = "f_sleep"
    /\ pc' = "f_loop"
    /\ UNCHANGED <<pvars, cfgvars, fvars, svars, kvars, zvars>>
    /\ UNCHANGED <<script, exc, bus, sent, rxq, msg, current_motor_state, history,
                   tick, idx, target_pos, intr, intrInExit>>

\* line 144: bus.send(disable) inside finally; a CanError escapes the script
FastDisable ==
    /\ script = "fast" /\ pc = "f_disable"
    /\ \/ /\ sent' = Append(sent, CommandFrame(MUX_DISABLE, FAST_MOTOR_ID))
          /\ pc' = "f_disable_settle"
          /\ UNCHANGED exc
       \/ /\ exc' = "CanError"
          /\ pc' = "exit"
          /\ UNCHANGED sent
    /\ UNCHANGED <<pvars, cfgvars, fvars, svars, kvars, zvars>>
    /\ UNCHANGED <<script, bus, rxq, msg, current_motor_state, history, tick, idx,
                   target_pos, intr, intrInExit>>

\* line 145: time.sleep(0.5)
FastDisableSettle ==
    /\ script = "fast" /\ pc = "f_disable_settle"
    /\ pc' = "f_shutdown"
    /\ UNCHANGED <<pvars, cfgvars, fvars, svars, kvars, zvars>>
    /\ UNCHANGED <<script, exc, bus, sent, rxq, msg, current_motor_state, history,
                   tick, idx, target_pos, intr, intrInExit>>

\* line 146: bus.shutdown()
FastShutdown ==
    /\ script = "fast" /\ pc = "f_shutdown"
    /\ bus' = "shutdown"
    /\ pc' = "exit"
    /\ UNCHANGED <<pvars, cfgvars, fvars, svars, kvars, zvars>>
    /\ UNCHANGED <<script, exc, sent, rxq, msg, current_motor_state, history, tick,
                   idx, target_pos, intr, intrInExit>>

\* Ctrl+C while fast.py runs.  Inside read_feedback's try (lines 76-85) the
\* bare "except: pass" catches it; elsewhere in the main try "except
\* KeyboardInterrupt" catches it and the finally block runs; inside the
\* finally block nothing catches it.
FastInterrupt ==
    /\ script = "fast" /\ pc \notin {"f_lookup", "exit"}
    /\ intr < MaxInterrupts
    /\ intr' = intr + 1
    /\ IF pc \in FastInnerTry
       THEN pc' = "f_recv" /\ UNCHANGED <<exc, intrInExit>>
       ELSE IF pc \in FastTry
            THEN pc' = "f_disable" /\ UNCHANGED <<exc, intrInExit>>
            ELSE pc' = "exit" /\ exc' = "KeyboardInterrupt" /\ intrInExit' = TRUE
    /\ UNCHANGED <<pvars, cfgvars, fvars, svars, kvars, zvars>>
    /\ UNCHANGED <<script, bus, sent, rxq, msg, current_motor_state, history, tick, idx,
                   target_pos>>

\* the motor (or another node) puts a frame on the bus while the loop polls
FastArrive ==
    /\ script = "fast" /\ pc \in FastTry \cup FastInnerTry
    /\ Len(rxq) < MaxInbound
    /\ \E f \in FrameSet : rxq' = Append(rxq, f)
    /\ UNCHANGED <<pvars, cfgvars, fvars, svars, kvars, zvars>>
    /\ UNCHANGED <<script, pc, exc, bus, sent, msg, current_motor_state, history,
                   tick, idx, target_pos, intr, intrInExit>>

FastNext ==
    \/ FastLookup \/ FastEnable \/ FastSettle \/ FastLoop \/ FastRecv \/ FastUnpack
    \/ FastSetPos \/ FastSetVel \/ FastSetTime \/ FastSend
    \/ FastRecTime \/ FastRecTarget \/ FastRecActual \/ FastCadence \/ FastSleep
    \/ FastDisable \/ FastDisableSettle \/ FastShutdown
    \/ FastInterrupt \/ FastArrive

---------------------------------------------------------------------------
(* mit.py: enable, one control command, hold, disable *)

MIT_MOTOR_ID_TO_TYPE_MAP == [m \in {16, 17, 18, 19} |-> "O3"] @@ (20 :> "O2")

\* line 102: motor_params = MOTOR_TYPE_PARAMS[motor_type]
MitParams == type_params[type_map[MIT_MOTOR_ID]]

MitTry == {"m_open", "m_enable", "m_settle", "m_control", "m_hold"}

MitFinally == {"m_finally", "m_disable", "m_shutdown"}

\* lines 95-102: the pre-flight check; sys.exit(1) when MOTOR_ID has no type
MitPreflight ==
    /\ script = "mit" /\ pc = "m_preflight"
    /\ IF MIT_MOTOR_ID \notin DOMAIN type_map
       THEN exc' = "SystemExit" /\ pc' = "exit"
       ELSE pc' = "m_open" /\ UNCHANGED exc
    /\ UNCHANGED <<pvars, cfgvars, fvars, svars, kvars, zvars>>
    /\ UNCHANGED <<script, bus, sent, rxq, msg, current_motor_state, history, tick,
                   idx, target_pos, intr, intrInExit>>

\* line 112: can.interface.Bus(...); a failure is caught by "except Exception"
MitOpen ==
    /\ script = "mit" /\ pc = "m_open"
    /\ \/ bus' = "open" /\ pc' = "m_enable"
       \/ pc' = "m_finally" /\ UNCHANGED bus
    /\ UNCHANGED <<pvars, cfgvars, fvars, svars, kvars, zvars>>
    /\ UNCHANGED <<script, exc, sent, rxq, msg, current_motor_state, history, tick,
                   idx, target_pos, intr, intrInExit>>

\* lines 117-118
MitEnable ==
    /\ script = "mit" /\ pc = "m_enable"
    /\ \/ /\ sent' = Append(sent, CommandFrame(MUX_ENABLE, MIT_MOTOR_ID))
          /\ pc' = "m_settle"
       \/ /\ pc' = "m_finally"
          /\ UNCHANGED sent
    /\ UNCHANGED <<pvars, cfgvars, fvars, svars, kvars, zvars>>
    /\ UNCHANGED <<script, exc, bus, rxq, msg, current_motor_state, history, tick,
                   idx, target_pos, intr, intrInExit>>

\* line 119: time.sleep(1)
MitSettle ==
    /\ script = "mit" /\ pc = "m_settle"
    /\ pc' = "m_control"
    /\ UNCHANGED <<pvars, cfgvars, fvars, svars, kvars, zvars>>
    /\ UNCHANGED <<script, exc, bus, sent, rxq, msg, current_motor_state, history,
                   tick, idx, target_pos, intr, intrInExit>>

\* lines 125-134: send_control_command(bus, MOTOR_ID, 0.0, 0.0, KP, KD, 0.0, params)
MitControl ==
    /\ script = "mit" /\ pc = "m_control"
    /\ \/ /\ ~send_control_command_raises(MitParams)
          /\ sent' = Append(sent, ControlFrame(MIT_MOTOR_ID, 0, 0, MIT_KP_GAIN,
                                               MIT_KD_GAIN, 0, MitParams))
          /\ pc' = "m_hold"
       \/ /\ pc' = "m_finally"
          /\ UNCHANGED sent
    /\ UNCHANGED <<pvars, cfgvars, fvars, svars, kvars, zvars>>
    /\ UNCHANGED <<script, exc, bus, rxq, msg, current_motor_state, history, tick,
                   idx, target_pos, intr, intrInExit>>

\* line 136: time.sleep(30)
MitHold ==
    /\ script = "mit" /\ pc = "m_hold"
    /\ pc' = "m_finally"
    /\ UNCHANGED <<pvars, cfgvars, fvars, svars, kvars, zvars>>
    /\ UNCHANGED <<script, exc, bus, sent, rxq, msg, current_motor_state, history,
                   tick, idx, target_pos, intr, intrInExit>>

\* line 142: if bus
MitFinallyHead ==
    /\ script = "mit" /\ pc = "m_finally"
    /\ pc' = IF bus = "open" THEN "m_disable" ELSE "exit"
    /\ UNCHANGED <<pvars, cfgvars, fvars, svars, kvars, zvars>>
    /\ UNCHANGED <<script, exc, bus, sent, rxq, msg, current_motor_state, history,
                   tick, idx, target_pos, intr, intrInExit>>

\* lines 144-145: bus.send(disable) inside finally
MitDisable ==
    /\ script = "mit" /\ pc = "m_disable"
    /\ \/ /\ sent' = Append(sent, CommandFrame(MUX_DISABLE, MIT_MOTOR_ID))
          /\ pc' = "m_shutdown"
          /\ UNCHANGED exc
       \/ /\ exc' = "CanError"
          /\ pc' = "exit"
          /\ UNCHANGED sent
    /\ UNCHANGED <<pvars, cfgvars, fvars, svars, kvars, zvars>>
    /\ UNCHANGED <<script, bus, rxq, msg, current_motor_state, history, tick, idx,
                   target_pos, intr, intrInExit>>

\* line 146: bus.shutdown()
MitShutdown ==
    /\ script = "mit" /\ pc = "m_shutdown"
    /\ bus' = "shutdown"
    /\ pc' = "exit"
    /\ UNCHANGED <<pvars, cfgvars, fvars, svars, kvars, zvars>>
    /\ UNCHANGED <<script, exc, sent, rxq, msg, current_motor_state, history, tick,
                   idx, target_pos, intr, intrInExit>>

\* Ctrl+C while mit.py runs: "except Exception" does not catch it; the finally
\* block runs and the interrupt propagates after it.  Inside the finally block
\* it ends the block at once.
MitInterrupt ==
    /\ script = "mit" /\ pc \notin {"m_preflight", "exit"}
    /\ intr < MaxInterrupts
    /\ intr' = intr + 1
    /\ exc' = "KeyboardInterrupt"
    /\ IF pc \in MitTry
       THEN pc' = "m_finally" /\ UNCHANGED intrInExit
       ELSE pc' = "exit" /\ intrInExit' = TRUE
    /\ UNCHANGED <<pvars, cfgvars, fvars, svars, kvars, zvars>>
    /\ UNCHANGED <<script, bus, sent, rxq, msg, current_motor_state, history, tick,
                   idx, target_pos>>

MitNext ==
    \/ MitPreflight \/ MitOpen \/ MitEnable \/ MitSettle \/ MitControl \/ MitHold
    \/ MitFinallyHead \/ MitDisable \/ MitShutdown \/ MitInterrupt

---------------------------------------------------------------------------
(* simultaenousmit.py: enable all, move all, zero all, disable all *)

SIM_MOTOR_ID_TO_TYPE_MAP == (2 :> "O2") @@ (5 :> "O5")

NumMotors == Len(MOTORS_TO_TEST)

\* what the operator can type at the prompt (1/100 rad); 2000 is out of range
TargetInputs == {0, 100, 2000}

get_motor_params_raises(motor_id) == motor_id \notin DOMAIN type_map

get_motor_params(motor_id) == type_params[type_map[motor_id]]

SimTry == {"s_open", "s_enable", "s_settle", "s_move", "s_hold", "s_zero", "s_hold2"}

SimFinally == {"s_finally", "s_disable", "s_shutdown"}

\* line 115
SimOpen ==
    /\ script = "simultaenousmit" /\ pc = "s_open"
    /\ \/ bus' = "open" /\ pc' = "s_enable" /\ idx' = 1
       \/ pc' = "s_finally" /\ UNCHANGED <<bus, idx>>
    /\ UNCHANGED <<pvars, cfgvars, fvars, svars, kvars, zvars>>
    /\ UNCHANGED <<script, exc, sent, rxq, msg, current_motor_state, history, tick,
                   target_pos, intr, intrInExit>>

\* lines 120-122: one iteration of the enable loop
SimEnable ==
    /\ script = "simultaenousmit" /\ pc = "s_enable"
    /\ \/ /\ sent' = Append(sent, CommandFrame(MUX_ENABLE, MOTORS_TO_TEST[idx]))
          /\ IF idx < NumMotors
             THEN idx' = idx + 1 /\ pc' = "s_enable"
             ELSE idx' = 0 /\ pc' = "s_settle"
       \/ /\ pc' = "s_finally"
          /\ UNCHANGED <<sent, idx>>
    /\ UNCHANGED <<pvars, cfgvars, fvars, svars, kvars, zvars>>
    /\ UNCHANGED <<script, exc, bus, rxq, msg, current_motor_state, history, tick,
                   target_pos, intr, intrInExit>>

\* line 124: time.sleep(1)
SimSettle ==
    /\ script = "simultaenousmit" /\ pc = "s_settle"
    /\ pc' = "s_move"
    /\ idx' = 1
    /\ UNCHANGED <<pvars, cfgvars, fvars, svars, kvars, zvars>>
    /\ UNCHANGED <<script, exc, bus, sent, rxq, msg, current_motor_state, history,
                   tick, target_pos, intr, intrInExit>>

\* one iteration of a command loop (lines 130-134, 142-146): get_motor_params,
\* then send_control_command
SimCommand(here, pos, after) ==
    /\ script = "simultaenousmit" /\ pc = here
    /\ \/ /\ ~get_motor_params_raises(MOTORS_TO_TEST[idx])
          /\ ~send_control_command_raises(get_motor_params(MOTORS_TO_TEST[idx]))
          /\ sent' = Append(sent, ControlFrame(MOTORS_TO_TEST[idx], pos, 0,
                                SIM_KP_GAIN, SIM_KD_GAIN, 0,
                                get_motor_params(MOTORS_TO_TEST[idx])))
          /\ IF idx < NumMotors
             THEN idx' = idx + 1 /\ pc' = here
             ELSE idx' = 0 /\ pc' = after
       \/ /\ pc' = "s_finally"
          /\ UNCHANGED <<sent, idx>>
    /\ UNCHANGED <<pvars, cfgvars, fvars, svars, kvars, zvars>>
    /\ UNCHANGED <<script, exc, bus, rxq, msg, current_motor_state, history, tick,
                   target_pos, intr, intrInExit>>

\* lines 130-134
SimMove == SimCommand("s_move", target_pos, "s_hold")

\* line 137: time.sleep(5)
SimHold ==
    /\ script = "simultaenousmit" /\ pc = "s_hold"
    /\ pc' = "s_zero"
    /\ idx' = 1
    /\ UNCHANGED <<pvars, cfgvars, fvars, svars, kvars, zvars>>
    /\ UNCHANGED <<script, exc, bus, sent, rxq, msg, current_motor_state, history,
                   tick, target_pos, intr, intrInExit>>

\* lines 142-146
SimZero == SimCommand("s_zero", 0, "s_hold2")

\* line 149: time.sleep(2)
SimHold2 ==
    /\ script = "simultaenousmit" /\ pc = "s_hold2"
    /\ pc' = "s_finally"
    /\ UNCHANGED <<pvars, cfgvars, fvars, svars, kvars, zvars>>
    /\ UNCHANGED <<script, exc, bus, sent, rxq, msg, current_motor_state, history,
                   tick, idx, target_pos, intr, intrInExit>>

\* line 156: if bus
SimFinallyHead ==
    /\ script = "simultaenousmit" /\ pc = "s_finally"
    /\ IF bus = "open"
       THEN pc' = "s_disable" /\ idx' = 1
       ELSE pc' = "exit" /\ UNCHANGED idx
    /\ UNCHANGED <<pvars, cfgvars, fvars, svars, kvars, zvars>>
    /\ UNCHANGED <<script, exc, bus, sent, rxq, msg, current_motor_state, history,
                   tick, target_pos, intr, intrInExit>>

\* lines 158-160: one iteration of the disable loop; a CanError leaves the
\* finally block
SimDisable ==
    /\ script = "simultaenousmit" /\ pc = "s_disable"
    /\ \/ /\ sent' = Append(sent, CommandFrame(MUX_DISABLE, MOTORS_TO_TEST[idx]))
          /\ IF idx < NumMotors
             THEN idx' = idx + 1 /\ pc' = "s_disable"
             ELSE idx' = 0 /\ pc' = "s_shutdown"
          /\ UNCHANGED exc
       \/ /\ exc' = "CanError"
          /\ pc' = "exit"
          /\ UNCHANGED <<sent, idx>>
    /\ UNCHANGED <<pvars, cfgvars, fvars, svars, kvars, zvars>>
    /\ UNCHANGED <<script, bus, rxq, msg, current_motor_state, history, tick,
                   target_pos, intr, intrInExit>>

\* line 162: bus.shutdown()
SimShutdown ==
    /\ script = "simultaenousmit" /\ pc = "s_shutdown"
    /\ bus' = "shutdown"
    /\ pc' = "exit"
    /\ UNCHANGED <<pvars, cfgvars, fvars, svars, kvars, zvars>>
    /\ UNCHANGED <<script, exc, sent, rxq, msg, current_motor_state, history, tick,
                   idx, target_pos, intr, intrInExit>>

\* Ctrl+C while simultaenousmit.py runs (as in mit.py)
SimInterrupt ==
    /\ script = "simultaenousmit" /\ pc # "exit"
    /\ intr < MaxInterrupts
    /\ intr' = intr + 1
    /\ exc' = "KeyboardInterrupt"
    /\ IF pc \in SimTry
       THEN pc' = "s_finally" /\ UNCHANGED intrInExit
       ELSE pc' = "exit" /\ intrInExit' = TRUE
    /\ UNCHANGED <<pvars, cfgvars, fvars, svars, kvars, zvars>>
    /\ UNCHANGED <<script, bus, sent, rxq, msg, current_motor_state, history, tick,
                   idx, target_pos>>

SimNext ==
    \/ SimOpen \/ SimEnable \/ SimSettle \/ SimMove \/ SimHold \/ SimZero
    \/ SimHold2 \/ SimFinallyHead \/ SimDisable \/ SimShutdown \/ SimInterrupt

---------------------------------------------------------------------------
(* The control scripts *)

\* no param helper is executing
NoCall ==
    /\ op = "none"
    /\ retries = 0
    /\ attempt = 0
    /\ reports = <<>>
    /\ failed_msg = FALSE
    /\ result = <<>>
    /\ outcomes = <<>>
    /\ oldAtStart = 0
    /\ oldLeft = 0
    /\ staleReturned = FALSE

\* no sweep is running
NoSweep ==
    /\ present = {}
    /\ visited = [enable |-> <<>>, poll |-> <<>>, shown |-> <<>>, disable |-> <<>>]
    /\ passes = 0
    /\ probed = <<>>
    /\ found_ids = <<>>

\* the codec is not being exercised
NoCodec ==
    /\ c_min = FZero
    /\ c_max = FZero
    /\ c_value = FZero
    /\ c_u16 = 0
    /\ c_float = FZero
    /\ c_torque_u16 = 0
    /\ c_motor_id = 0
    /\ c_arbitration_id = 0

\* setpermzeros.py is not running
NoZero == client_calls = <<>>

\* a table without the entry of motor_id
Without(map, motor_id) == [m \in DOMAIN map \ {motor_id} |-> map[m]]

\* the MOTOR_ID_TO_TYPE_MAP a script can be run with: the one in its source,
\* or that one with the entry of a motor it drives missing
TypeMapInputs(s) ==
    IF s = "fast"
    THEN {FAST_MOTOR_ID_TO_TYPE_MAP, Without(FAST_MOTOR_ID_TO_TYPE_MAP, FAST_MOTOR_ID)}
    ELSE IF s = "mit"
    THEN {MIT_MOTOR_ID_TO_TYPE_MAP, Without(MIT_MOTOR_ID_TO_TYPE_MAP, MIT_MOTOR_ID)}
    ELSE {SIM_MOTOR_ID_TO_TYPE_MAP} \cup
         {Without(SIM_MOTOR_ID_TO_TYPE_MAP, MOTORS_TO_TEST[k]) : k \in 1..NumMotors}

\* the MOTOR_TYPE_PARAMS a script can be run with: the one in the source, or
\* one whose O2 profile has KD_MAX = KD_MIN
TypeParamsInputs ==
    {MOTOR_TYPE_PARAMS, [MOTOR_TYPE_PARAMS EXCEPT !.O2.KD_MAX = MOTOR_TYPE_PARAMS.O2.KD_MIN]}

\* the module globals and locals before a script's first statement
CtlInit(s, p, b) ==
    /\ script = s
    /\ pc = p
    /\ exc = "none"
    /\ bus = b
    /\ sent = <<>>
    /\ rxq = <<>>
    /\ msg = NoMsg
    /\ current_motor_state = [pos |-> 0, vel |-> 0, last_update |-> 0]
    /\ history = [time |-> <<>>, target |-> <<>>, actual |-> <<>>]
    /\ tick = 0
    /\ idx = 0
    /\ intr = 0
    /\ intrInExit = FALSE
    /\ NoCall
    /\ calls = 0
    /\ returned = {}
    /\ type_map \in TypeMapInputs(s)
    /\ type_params \in TypeParamsInputs
    /\ sleep_time = 0
    /\ expected = current_motor_state
    /\ NoSweep
    /\ NoCodec
    /\ NoZero

\* fast.py at line 88: the bus is not open yet
FastInit == CtlInit("fast", "f_lookup", "unopened") /\ target_pos = 0

\* mit.py at line 95: bus = None
MitInit == CtlInit("mit", "m_preflight", "unopened") /\ target_pos = 0

\* simultaenousmit.py at line 114: bus = None, target_pos read from the prompt
SimInit == CtlInit("simultaenousmit", "s_open", "unopened") /\ target_pos \in TargetInputs

Init == FastInit \/ MitInit \/ SimInit

Next == FastNext \/ MitNext \/ SimNext

Spec == Init /\ [][Next]_vars

\* the steps fast.py takes by itself: every statement of the script runs to
\* its end (a bus.send returns or raises, a sleep ends); the operator's Ctrl+C
\* and the frames other nodes put on the bus are not the script's steps
FastStep ==
    \/ FastLookup \/ FastEnable \/ FastSettle \/ FastLoop \/ FastRecv \/ FastUnpack
    \/ FastSetPos \/ FastSetVel \/ FastSetTime \/ FastSend
    \/ FastRecTime \/ FastRecTarget \/ FastRecActual \/ FastCadence \/ FastSleep
    \/ FastDisable \/ FastDisableSettle \/ FastShutdown

\* the control scripts with the interpreter always running the script on
FairSpec == Spec /\ WF_vars(FastStep)

---------------------------------------------------------------------------
(* Properties of the control scripts *)

\* the positions of sent that hold a frame with this mux
SentWith(mux) == {i \in 1..Len(sent) : MuxOf(sent[i]) = mux}

\* the positions of sent that hold a frame with this mux for this motor
SentTo(mux, motor_id) == {i \in SentWith(mux) : MotorOf(sent[i]) = motor_id}

\* C1: every execution of the fast.py loop (enable, ticks, cancellation or a
\* failed send in a tick) ends with exactly one Disable frame sent and the bus
\* shut down.  Stated for the executions in which the Enable frame went out
\* and no second interrupt hits the exit path itself.
C1_OneDisableAndRelease ==
    (script = "fast" /\ pc = "exit" /\ SentWith(MUX_ENABLE) # {} /\ ~intrInExit)
        => (Cardinality(SentWith(MUX_DISABLE)) = 1 /\ bus = "shutdown")

\* C2: once the exit path of a script is entered with the bus open, the bus
\* handle is released when the script ends, even when the Disable send raises.
C2_ExitAlwaysReleases ==
    (pc = "exit" /\ bus # "unopened" /\ ~intrInExit) => bus = "shutdown"

\* C3: after an operator interrupt has been delivered to fast.py, the loop is
\* no longer in Running (no interrupt is swallowed).
C3_InterruptLeavesRunning ==
    (script = "fast" /\ intr > 0) => pc \notin FastRunning

\* C4: in fast.py and mit.py the frames sent follow Enable, Control*, Disable:
\* a Control frame has exactly one Enable frame before it, the Enable frame is
\* the first frame, and the Disable frame is the last frame.
C4_FrameOrder ==
    script \in {"fast", "mit"} =>
        \A i \in 1..Len(sent) :
            /\ MuxOf(sent[i]) \in {MUX_ENABLE, MUX_CONTROL, MUX_DISABLE}
            /\ MuxOf(sent[i]) = MUX_CONTROL =>
                   Cardinality({j \in SentWith(MUX_ENABLE) : j < i}) = 1
            /\ MuxOf(sent[i]) = MUX_ENABLE => i = 1
            /\ MuxOf(sent[i]) = MUX_DISABLE => i = Len(sent)

\* a complete fast.py run: enabled, two control frames, interrupted, disabled,
\* bus shut down
C4_Witness ==
    /\ script = "fast" /\ pc = "exit" /\ bus = "shutdown" /\ intr = 1
    /\ Len(sent) = 4
    /\ MuxOf(sent[1]) = MUX_ENABLE /\ MuxOf(sent[2]) = MUX_CONTROL
    /\ MuxOf(sent[3]) = MUX_CONTROL /\ MuxOf(sent[4]) = MUX_DISABLE

\* the disable loop reached this motor: its Disable frame was sent, or its
\* send is the one that raised
DisableAttempted(motor_id) ==
    \/ SentTo(MUX_DISABLE, motor_id) # {}
    \/ exc = "CanError" /\ idx \in 1..NumMotors /\ MOTORS_TO_TEST[idx] = motor_id

\* C5: when simultaenousmit.py ends, every motor that was enabled has had its
\* Disable sent or attempted, and the bus is shut down.  Stated for the runs
\* in which the first motor was enabled and no interrupt hits the exit path.
C5_AllDisabledAndReleased ==
    (/\ script = "simultaenousmit" /\ pc = "exit" /\ ~intrInExit
     /\ SentTo(MUX_ENABLE, MOTORS_TO_TEST[1]) # {}) =>
        /\ \A k \in 1..NumMotors :
               SentTo(MUX_ENABLE, MOTORS_TO_TEST[k]) # {}
                   => DisableAttempted(MOTORS_TO_TEST[k])
        /\ bus # "unopened" => bus = "shutdown"

---------------------------------------------------------------------------
(* Properties of read_feedback and of one iteration of the fast.py loop *)

\* the step is a bus.recv of read_feedback that returns the frame at the head
\* of the queue
RecvReturnsHead == script = "fast" /\ pc = "f_recv" /\ rxq # <<>> /\ rxq' = Tail(rxq)

HiId(frame) == (frame.arbitration_id \div 256) % 256
LoId(frame) == frame.arbitration_id % 256

\* the FeedbackSample before any frame was decoded
InitialSample == [pos |-> 0, vel |-> 0, last_update |-> 0]

\* C12: a received frame without error flag goes on to be decoded when bits
\* 8-15 of its arbitration ID equal MOTOR_ID, or else when bits 0-7 equal
\* MOTOR_ID; when neither does, the frame is ignored: no exception, the
\* FeedbackSample stays as it is and the drain goes on to the next recv.
C12_IdentityMatch ==
    [][(RecvReturnsHead /\ ~Head(rxq).is_error_frame) =>
          IF HiId(Head(rxq)) = FAST_MOTOR_ID \/ LoId(Head(rxq)) = FAST_MOTOR_ID
          THEN pc' = "f_unpack" /\ msg' = Head(rxq)
          ELSE /\ pc' = "f_recv"
               /\ current_motor_state' = current_motor_state
               /\ exc' = exc]_vars

\* a frame that carries MOTOR_ID only in bits 0-7 has been decoded into the
\* FeedbackSample (p_raw 0x4000, v_raw 0xC000)
C12_Witness ==
    /\ script = "fast" /\ pc = "f_recv" /\ msg # NoMsg
    /\ HiId(msg) # FAST_MOTOR_ID /\ LoId(msg) = FAST_MOTOR_ID
    /\ send_control_command_raises(FastParams) = FALSE
    /\ current_motor_state.pos =
           unscale_u16_to_float(16384, FastParams.P_MIN, FastParams.P_MAX)
    /\ current_motor_state.vel =
           unscale_u16_to_float(49152, FastParams.V_MIN, FastParams.V_MAX)

\* C13: while a matched frame with fewer than 4 data bytes is being
\* processed, no step changes the FeedbackSample or raises, and the frame
\* never reaches the assignments of lines 82-84: the next position of
\* read_feedback is its next recv.
C13_ShortPayloadDiscarded ==
    [][(script = "fast" /\ pc = "f_unpack" /\ Len(msg.data) < 4) =>
          /\ current_motor_state' = current_motor_state
          /\ exc' = "none"
          /\ pc' \in {"f_unpack", "f_recv"}]_vars

\* a matched three-byte frame has just been dropped after an earlier frame
\* had been decoded: the FeedbackSample still holds all three values of that
\* earlier frame, and the drain is at its next recv
C13_Witness ==
    /\ script = "fast" /\ pc = "f_recv" /\ msg # NoMsg
    /\ ~msg.is_error_frame /\ HiId(msg) = FAST_MOTOR_ID /\ Len(msg.data) < 4
    /\ current_motor_state # InitialSample
    /\ current_motor_state = expected

\* C14: a frame with the error flag set is dropped by the recv that returned
\* it: the FeedbackSample stays as it is, the drain goes on to its next recv,
\* and no error frame is ever inside the decode of lines 76-85.
C14_ErrorFrameIgnored ==
    /\ [](script = "fast" /\ pc \in FastInnerTry => ~msg.is_error_frame)
    /\ [][(RecvReturnsHead /\ Head(rxq).is_error_frame) =>
             /\ current_motor_state' = current_motor_state
             /\ pc' = "f_recv"]_vars

\* an error frame that carries MOTOR_ID and a full payload has just been
\* dropped: the FeedbackSample is still the initial one
C14_Witness ==
    /\ script = "fast" /\ pc = "f_recv" /\ msg # NoMsg
    /\ msg.is_error_frame /\ HiId(msg) = FAST_MOTOR_ID /\ Len(msg.data) >= 4
    /\ current_motor_state = InitialSample

\* C15: outside read_feedback, the FeedbackSample is the decode of the last
\* frame received so far that had no error flag, carried MOTOR_ID and had a
\* full payload (the initial sample when there was none).
C15_LastWriteWins ==
    (script = "fast" /\ pc \notin ({"f_recv"} \cup FastInnerTry)) =>
        current_motor_state = expected

\* C17: read_feedback always returns: once the loop is at a recv of the drain,
\* it eventually gets out of read_feedback (to the control send, or out of the
\* loop), whatever the bus delivers meanwhile.
C17_DrainTerminates ==
    (script = "fast" /\ pc = "f_recv") ~> (pc \notin ({"f_recv"} \cup FastInnerTry))

\* the control frames sent so far are one per iteration: the current
\* iteration has sent its frame exactly when it is past line 117
OneControlFramePerTick ==
    Cardinality(SentWith(MUX_CONTROL)) =
        IF pc \in {"f_recv", "f_send"} \cup FastInnerTry THEN tick - 1 ELSE tick

\* C16: in Running, every iteration sends exactly one control frame, whether
\* its drain decoded a frame or not, and the 'actual' it records is the
\* FeedbackSample position as the drain left it.
C16_OneFramePerTick ==
    (script = "fast" /\ pc \in FastRunning) =>
        /\ OneControlFramePerTick
        /\ pc \in {"f_cadence", "f_sleep", "f_loop"} /\ tick >= 1 =>
               /\ Len(history.actual) = tick
               /\ history.actual[tick] = current_motor_state.pos

\* the second iteration received nothing usable: it has sent its control
\* frame and recorded as 'actual' the position decoded in the first iteration
C16_Witness ==
    /\ script = "fast" /\ pc = "f_cadence" /\ tick = 2
    /\ current_motor_state.last_update = 1
    /\ Cardinality(SentWith(MUX_CONTROL)) = 2
    /\ Len(history.actual) = 2
    /\ history.actual[2] = current_motor_state.pos
    /\ history.actual[2] # 0

\* C18: after the cadence step has found sleep_time negative (the iteration
\* overran the period) the loop does not sleep and does not leave Running: it
\* goes straight to the head of the next iteration, and the control frames
\* stay one per iteration.
C18_OverrunNotCompensated ==
    /\ [](script = "fast" /\ pc \in FastRunning =>
             /\ pc = "f_sleep" => sleep_time > 0
             /\ OneControlFramePerTick)
    /\ [][(script = "fast" /\ pc = "f_cadence" /\ pc' # pc /\ intr' = intr
              /\ sleep_time' < 0) => pc' = "f_loop"]_vars

\* the first iteration overran; the second one has sent its one control frame
C18_Witness ==
    /\ script = "fast" /\ pc = "f_rec_time" /\ tick = 2 /\ sleep_time < 0
    /\ Cardinality(SentWith(MUX_CONTROL)) = 2

\* the motors a script drives
MotorsDriven ==
    IF script = "fast" THEN {FAST_MOTOR_ID}
    ELSE IF script = "mit" THEN {MIT_MOTOR_ID}
    ELSE {MOTORS_TO_TEST[k] : k \in 1..NumMotors}

\* C19: when a motor the script drives has no entry in MOTOR_ID_TO_TYPE_MAP,
\* the script sends no frame (Enable, control or Disable) to any motor.
C19_NoFrameWithoutMapping ==
    (script \in {"fast", "mit", "simultaenousmit"} /\ MotorsDriven \ DOMAIN type_map # {})
        => sent = <<>>

\* C20: send_control_command is never called with a profile that has a range
\* with max = min.
C20_NoDegenerateEncode ==
    /\ script = "fast" /\ pc = "f_send" => ~send_control_command_raises(FastParams)
    /\ script = "mit" /\ pc = "m_control" => ~send_control_command_raises(MitParams)
    /\ (script = "simultaenousmit" /\ pc \in {"s_move", "s_zero"}
           /\ ~get_motor_params_raises(MOTORS_TO_TEST[idx])) =>
           ~send_control_command_raises(get_motor_params(MOTORS_TO_TEST[idx]))

---------------------------------------------------------------------------
(* The param helpers of findangles.py and the scan body of findmotorid.py *)

\* bus.recv timeouts of the two flush_bus, in ms
FINDANGLES_FLUSH_TIMEOUT_MS == 10
FINDMOTORID_FLUSH_TIMEOUT_MS == 0

FlushTimeoutMs ==
    IF script = "findangles" THEN FINDANGLES_FLUSH_TIMEOUT_MS
    ELSE FINDMOTORID_FLUSH_TIMEOUT_MS

\* param responses a motor can put on the bus, each carrying a float value
ParamFrameSet == {[value |-> 10], [value |-> 20]}

Dec(n) == IF n > 0 THEN n - 1 ELSE 0

AnyOk(os) == \E i \in 1..Len(os) : os[i].ok

\* findangles.py calls one of its helpers (lines 72, 87, 88, 123)
ParamCall ==
    /\ script = "findangles" /\ pc = "p_idle"
    /\ calls < MaxCalls
    /\ calls' = calls + 1
    /\ \E o \in {"read", "write", "disable"}, n \in 1..MaxRetries :
           op' = o /\ retries' = n
    /\ attempt' = 0
    /\ reports' = <<>>
    /\ failed_msg' = FALSE
    /\ result' = <<>>
    /\ outcomes' = <<>>
    /\ pc' = "p_attempt"
    /\ UNCHANGED <<script, exc, rxq, oldAtStart, oldLeft, staleReturned, returned>>
    /\ UNCHANGED <<conly, cfgvars, fvars, svars, kvars, zvars>>

\* "for attempt in range(retries)" (lines 24, 34, 44): the next attempt begins
\* and enters flush_bus, or the loop is exhausted
HelperFor ==
    /\ script = "findangles" /\ pc = "p_attempt"
    /\ IF attempt < retries
       THEN /\ oldAtStart' = Len(rxq)
            /\ oldLeft' = Len(rxq)
            /\ pc' = "p_flush_recv"
       ELSE /\ pc' = "p_failed"
            /\ UNCHANGED <<oldAtStart, oldLeft>>
    /\ UNCHANGED <<script, exc, rxq, op, retries, attempt, reports, failed_msg,
                   result, outcomes, staleReturned, calls, returned>>
    /\ UNCHANGED <<conly, cfgvars, fvars, svars, kvars, zvars>>

\* flush_bus that gives up after one recv, whatever it returned
flush_bus_recv_Once ==
    /\ pc = "p_flush_recv"
    /\ IF rxq # <<>>
       THEN rxq' = Tail(rxq) /\ oldLeft' = Dec(oldLeft)
       ELSE UNCHANGED <<rxq, oldLeft>>
    /\ pc' = "p_call"
    /\ UNCHANGED <<script, exc, op, retries, attempt, reports, failed_msg, result,
                   outcomes, oldAtStart, staleReturned, calls, returned>>
    /\ UNCHANGED <<conly, cfgvars, fvars, svars, kvars, zvars>>

\* flush_bus: msg = bus.recv(timeout); a queued frame is returned at once and
\* dropped; on an empty queue recv returns None at once when the timeout is 0
\* and blocks otherwise
flush_bus_recv ==
    /\ pc = "p_flush_recv"
    /\ IF rxq # <<>>
       THEN /\ rxq' = Tail(rxq)
            /\ oldLeft' = Dec(oldLeft)
            /\ pc' = "p_flush_recv"
       ELSE /\ pc' = IF FlushTimeoutMs = 0 THEN "p_call" ELSE "p_flush_wait"
            /\ UNCHANGED <<rxq, oldLeft>>
    /\ UNCHANGED <<script, exc, op, retries, attempt, reports, failed_msg, result,
                   outcomes, oldAtStart, staleReturned, calls, returned>>
    /\ UNCHANGED <<conly, cfgvars, fvars, svars, kvars, zvars>>

\* bus.recv(timeout > 0) blocked on an empty queue: a frame that arrives in
\* time is returned (and dropped by flush_bus), else None ends flush_bus
flush_bus_wait ==
    /\ pc = "p_flush_wait"
    /\ IF rxq # <<>>
       THEN /\ rxq' = Tail(rxq)
            /\ oldLeft' = Dec(oldLeft)
            /\ pc' = "p_flush_recv"
       ELSE /\ pc' = "p_call"
            /\ UNCHANGED <<rxq, oldLeft>>
    /\ UNCHANGED <<script, exc, op, retries, attempt, reports, failed_msg, result,
                   outcomes, oldAtStart, staleReturned, calls, returned>>
    /\ UNCHANGED <<conly, cfgvars, fvars, svars, kvars, zvars>>

\* one exchange of the robstride client (read_param, write_param, disable):
\* the request goes out and the next inbound frame is taken as the response;
\* the call raises when none comes in time or when the frame is rejected
ClientExchange(ok) ==
    \/ /\ rxq = <<>> /\ ~ok
       /\ outcomes' = Append(outcomes, [ok |-> FALSE, value |-> 0])
       /\ UNCHANGED <<rxq, oldLeft, staleReturned>>
    \/ /\ rxq # <<>>
       /\ rxq' = Tail(rxq)
       /\ oldLeft' = Dec(oldLeft)
       /\ outcomes' = Append(outcomes,
                             [ok |-> ok, value |-> IF ok THEN Head(rxq).value ELSE 0])
       /\ staleReturned' = (staleReturned \/ (ok /\ oldLeft > 0))

\* the except clause of a helper (lines 29-30, 38-39, 49-50)
ReportFailure ==
    /\ reports' = Append(reports, attempt + 1)
    /\ attempt' = attempt + 1
    /\ pc' = "p_attempt"

\* safe_read_param whose except clause re-raises on the last attempt
safe_read_param_try_Reraise ==
    /\ script = "findangles" /\ pc = "p_call" /\ op = "read"
    /\ \E ok \in BOOLEAN :
           /\ ClientExchange(ok)
           /\ IF ok
              THEN /\ result' = <<outcomes'[Len(outcomes')].value>>
                   /\ pc' = "p_return"
                   /\ UNCHANGED <<reports, attempt, exc>>
              ELSE IF attempt + 1 < retries
                   THEN ReportFailure /\ UNCHANGED <<result, exc>>
                   ELSE /\ exc' = "Exception"
                        /\ pc' = "exit"
                        /\ UNCHANGED <<reports, attempt, result>>
    /\ UNCHANGED <<script, op, retries, failed_msg, oldAtStart, calls, returned>>
    /\ UNCHANGED <<conly, cfgvars, fvars, svars, kvars, zvars>>

\* safe_read_param, lines 35-39 after flush_bus: return client.read_param(...)
safe_read_param_try ==
    /\ script = "findangles" /\ pc = "p_call" /\ op = "read"
    /\ \E ok \in BOOLEAN :
           /\ ClientExchange(ok)
           /\ IF ok
              THEN /\ result' = <<outcomes'[Len(outcomes')].value>>
                   /\ pc' = "p_return"
                   /\ UNCHANGED <<reports, attempt>>
              ELSE ReportFailure /\ UNCHANGED result
    /\ UNCHANGED <<script, exc, op, retries, failed_msg, oldAtStart, calls, returned>>
    /\ UNCHANGED <<conly, cfgvars, fvars, svars, kvars, zvars>>

\* safe_write_param without the "return" of line 28: a successful attempt
\* falls through to the next iteration
safe_write_param_try_NoReturn ==
    /\ script = "findangles" /\ pc = "p_call" /\ op = "write"
    /\ \E ok \in BOOLEAN :
           /\ ClientExchange(ok)
           /\ IF ok
              THEN /\ attempt' = attempt + 1
                   /\ pc' = "p_attempt"
                   /\ UNCHANGED reports
              ELSE ReportFailure
    /\ UNCHANGED <<script, exc, op, retries, failed_msg, result, oldAtStart, calls,
                   returned>>
    /\ UNCHANGED <<conly, cfgvars, fvars, svars, kvars, zvars>>

\* safe_write_param that returns True after a successful attempt
safe_write_param_try_ReturnsTrue ==
    /\ script = "findangles" /\ pc = "p_call" /\ op = "write"
    /\ \E ok \in BOOLEAN :
           /\ ClientExchange(ok)
           /\ IF ok
              THEN /\ result' = <<1>>
                   /\ pc' = "p_return"
                   /\ UNCHANGED <<reports, attempt>>
              ELSE ReportFailure /\ UNCHANGED result
    /\ UNCHANGED <<script, exc, op, retries, failed_msg, oldAtStart, calls, returned>>
    /\ UNCHANGED <<conly, cfgvars, fvars, svars, kvars, zvars>>

\* safe_write_param, lines 25-30 after flush_bus: client.write_param(...); return
safe_write_param_try ==
    /\ script = "findangles" /\ pc = "p_call" /\ op = "write"
    /\ \E ok \in BOOLEAN :
           /\ ClientExchange(ok)
           /\ IF ok
              THEN /\ pc' = "p_return"
                   /\ UNCHANGED <<reports, attempt>>
              ELSE ReportFailure
    /\ UNCHANGED <<script, exc, op, retries, failed_msg, result, oldAtStart, calls,
                   returned>>
    /\ UNCHANGED <<conly, cfgvars, fvars, svars, kvars, zvars>>

\* safe_disable, lines 45-50 after flush_bus: client.disable(motor_id); return
safe_disable_try ==
    /\ script = "findangles" /\ pc = "p_call" /\ op = "disable"
    /\ \E ok \in BOOLEAN :
           /\ ClientExchange(ok)
           /\ IF ok
              THEN /\ pc' = "p_return"
                   /\ UNCHANGED <<reports, attempt>>
              ELSE ReportFailure
    /\ UNCHANGED <<script, exc, op, retries, failed_msg, result, oldAtStart, calls,
                   returned>>
    /\ UNCHANGED <<conly, cfgvars, fvars, svars, kvars, zvars>>

\* lines 31, 40-41, 51: the "[FAILED] Could not ..." line; the helper returns None
HelperFailed ==
    /\ script = "findangles" /\ pc = "p_failed"
    /\ failed_msg' = TRUE
    /\ result' = <<>>
    /\ pc' = "p_return"
    /\ UNCHANGED <<script, exc, rxq, op, retries, attempt, reports, outcomes,
                   oldAtStart, oldLeft, staleReturned, calls, returned>>
    /\ UNCHANGED <<conly, cfgvars, fvars, svars, kvars, zvars>>

\* findmotorid.py, lines 31-32: one iteration of the scan enters its try and
\* flush_bus
ScanCall ==
    /\ script = "findmotorid" /\ pc = "p_idle"
    /\ calls < MaxCalls
    /\ calls' = calls + 1
    /\ op' = "scan"
    /\ retries' = 1
    /\ attempt' = 0
    /\ reports' = <<>>
    /\ failed_msg' = FALSE
    /\ result' = <<>>
    /\ outcomes' = <<>>
    /\ oldAtStart' = Len(rxq)
    /\ oldLeft' = Len(rxq)
    /\ pc' = "p_flush_recv"
    /\ UNCHANGED <<script, exc, rxq, staleReturned, returned>>
    /\ UNCHANGED <<conly, cfgvars, fvars, svars, kvars, zvars>>

\* findmotorid.py, lines 37-46: val = client.read_param(motor_id, 'vbus');
\* "except Exception: pass"
scan_try ==
    /\ script = "findmotorid" /\ pc = "p_call" /\ op = "scan"
    /\ \E ok \in BOOLEAN :
           /\ ClientExchange(ok)
           /\ result' = IF ok THEN <<outcomes'[Len(outcomes')].value>> ELSE <<>>
    /\ pc' = "p_return"
    /\ UNCHANGED <<script, exc, op, retries, attempt, reports, failed_msg,
                   oldAtStart, calls, returned>>
    /\ UNCHANGED <<conly, cfgvars, fvars, svars, kvars, zvars>>

\* the helper (or the scan iteration) is over: the caller has its result
ParamReturn ==
    /\ pc = "p_return"
    /\ returned' = returned \cup
           {[op |-> op, ok |-> AnyOk(outcomes), result |-> result,
             failed_msg |-> failed_msg]}
    /\ pc' = "p_idle"
    /\ op' = "none"
    /\ retries' = 0
    /\ attempt' = 0
    /\ reports' = <<>>
    /\ failed_msg' = FALSE
    /\ result' = <<>>
    /\ outcomes' = <<>>
    /\ oldAtStart' = 0
    /\ oldLeft' = 0
    /\ UNCHANGED <<script, exc, rxq, staleReturned, calls>>
    /\ UNCHANGED <<conly, cfgvars, fvars, svars, kvars, zvars>>

\* a motor puts a param response (possibly a late one) on the bus
ParamArrive ==
    /\ pc \in {"p_idle", "p_attempt", "p_flush_recv", "p_flush_wait", "p_call"}
    /\ Len(rxq) < MaxQueue
    /\ \E f \in ParamFrameSet : rxq' = Append(rxq, f)
    /\ UNCHANGED <<script, pc, exc>>
    /\ UNCHANGED pvars
    /\ UNCHANGED <<conly, cfgvars, fvars, svars, kvars, zvars>>

ParamNext ==
    \/ ParamCall \/ HelperFor \/ flush_bus_recv \/ flush_bus_wait
    \/ safe_read_param_try \/ safe_write_param_try \/ safe_disable_try
    \/ HelperFailed \/ ScanCall \/ scan_try \/ ParamReturn \/ ParamArrive

\* a script with its bus open and no helper running; frames may already be queued
ParamInit ==
    /\ script \in {"findangles", "findmotorid"}
    /\ pc = "p_idle"
    /\ exc = "none"
    /\ bus = "open"
    /\ sent = <<>>
    /\ rxq = <<>>
    /\ msg = NoMsg
    /\ current_motor_state = [pos |-> 0, vel |-> 0, last_update |-> 0]
    /\ history = [time |-> <<>>, target |-> <<>>, actual |-> <<>>]
    /\ tick = 0
    /\ idx = 0
    /\ target_pos = 0
    /\ intr = 0
    /\ intrInExit = FALSE
    /\ NoCall
    /\ calls = 0
    /\ returned = {}
    /\ type_map = <<>>
    /\ type_params = MOTOR_TYPE_PARAMS
    /\ sleep_time = 0
    /\ expected = current_motor_state
    /\ NoSweep
    /\ NoCodec
    /\ NoZero

SpecParam == ParamInit /\ [][ParamNext]_vars

---------------------------------------------------------------------------
(* The sweeps: findangles.py's main block and findmotorid.py's scan loop.   *)
(* A call of a helper or of the client is one step here; a client call to  *)
(* a motor that does not answer raises, one to a motor that answers may     *)
(* still raise (a late or garbled response).                                *)

\* CAN_CONFIGS in the order the nested loops visit it
SWEEP_MOTOR_IDS == <<1, 2, 3, 4, 5, 19, 18, 17, 16, 20>>

NumSweepMotors == Len(SWEEP_MOTOR_IDS)

\* range(1, 128)
SCAN_FIRST_ID == 1
SCAN_LAST_ID == 127

SweepMotorSet == {SWEEP_MOTOR_IDS[k] : k \in 1..NumSweepMotors}

\* the sets of motors that can be on the bus during a sweep
SweepPresentInputs == {SweepMotorSet, SweepMotorSet \ {3}, SweepMotorSet \ {20}}

\* the sets of motors that can be on the bus during a scan
ScanPresentInputs == {{}, {1}, {5, 127}}

\* the results a client call to motor_id can have: TRUE (it returns), FALSE
\* (it raises)
ClientResults(motor_id) == IF motor_id \in present THEN BOOLEAN ELSE {FALSE}

sweepfixed == <<script, sent, rxq, msg, current_motor_state, history, tick,
                target_pos, present, probed, found_ids, kvars, zvars>>

\* lines 69-75, one iteration of the enable phase: safe_write_param (returns
\* whatever happens), flush_bus, client.enable(motor_id).  An exception of
\* client.enable is not a KeyboardInterrupt: only the finally block runs
SweepEnable ==
    /\ script = "findangles_main" /\ pc = "w_enable"
    /\ \E ok \in ClientResults(SWEEP_MOTOR_IDS[idx]) :
           IF ok
           THEN /\ visited' = [visited EXCEPT !.enable = Append(@, SWEEP_MOTOR_IDS[idx])]
                /\ IF idx < NumSweepMotors
                   THEN idx' = idx + 1 /\ pc' = "w_enable"
                   ELSE idx' = 1 /\ pc' = "w_poll"
                /\ UNCHANGED exc
           ELSE /\ exc' = "Exception"
                /\ pc' = "w_finally"
                /\ idx' = 1
                /\ UNCHANGED visited
    /\ UNCHANGED <<bus, intr, intrInExit, passes>>
    /\ UNCHANGED <<pvars, cfgvars, fvars, sweepfixed>>

\* lines 85-102, one iteration of a polling pass: two safe_read_param calls
\* (None when the retries are exhausted); "continue" when either is None,
\* else the motor's line is added to output_lines
SweepPoll ==
    /\ script = "findangles_main" /\ pc = "w_poll"
    /\ \E pos_ok \in ClientResults(SWEEP_MOTOR_IDS[idx]),
          vel_ok \in ClientResults(SWEEP_MOTOR_IDS[idx]) :
           visited' = [visited EXCEPT
               !.poll = Append(@, SWEEP_MOTOR_IDS[idx]),
               !.shown = IF pos_ok /\ vel_ok
                         THEN Append(@, SWEEP_MOTOR_IDS[idx]) ELSE @]
    /\ IF idx < NumSweepMotors
       THEN idx' = idx + 1 /\ pc' = "w_poll"
       ELSE idx' = 1 /\ pc' = "w_sleep"
    /\ UNCHANGED <<exc, bus, intr, intrInExit, passes>>
    /\ UNCHANGED <<pvars, cfgvars, fvars, sweepfixed>>

\* lines 105-108 and the head of the next pass (lines 82-83)
SweepSleep ==
    /\ script = "findangles_main" /\ pc = "w_sleep"
    /\ passes < MaxPasses
    /\ passes' = passes + 1
    /\ visited' = [visited EXCEPT !.poll = <<>>, !.shown = <<>>]
    /\ pc' = "w_poll"
    /\ UNCHANGED <<exc, bus, idx, intr, intrInExit>>
    /\ UNCHANGED <<pvars, cfgvars, fvars, sweepfixed>>

\* lines 121-123, one iteration of the finally block: safe_disable returns
\* whatever happens; after the last motor the script ends (with the exception
\* that brought it here, if any) and atexit shuts the buses down
SweepDisable ==
    /\ script = "findangles_main" /\ pc = "w_finally"
    /\ visited' = [visited EXCEPT !.disable = Append(@, SWEEP_MOTOR_IDS[idx])]
    /\ IF idx < NumSweepMotors
       THEN idx' = idx + 1 /\ pc' = "w_finally" /\ UNCHANGED bus
       ELSE idx' = 0 /\ pc' = "exit" /\ bus' = "shutdown"
    /\ UNCHANGED <<exc, intr, intrInExit, passes>>
    /\ UNCHANGED <<pvars, cfgvars, fvars, sweepfixed>>

\* Ctrl+C: in the try block it is caught at line 110 and the finally block
\* runs; in the finally block it ends the script (atexit still runs)
SweepInterrupt ==
    /\ script = "findangles_main" /\ pc # "exit"
    /\ intr < MaxInterrupts
    /\ intr' = intr + 1
    /\ IF pc \in {"w_enable", "w_poll", "w_sleep"}
       THEN pc' = "w_finally" /\ idx' = 1 /\ UNCHANGED <<exc, bus, intrInExit>>
       ELSE /\ pc' = "exit" /\ exc' = "KeyboardInterrupt" /\ intrInExit' = TRUE
            /\ bus' = "shutdown" /\ UNCHANGED idx
    /\ UNCHANGED <<visited, passes>>
    /\ UNCHANGED <<pvars, cfgvars, fvars, sweepfixed>>

scanfixed == <<script, exc, sent, rxq, msg, current_motor_state, history, tick,
               target_pos, intr, intrInExit, present, visited, passes, kvars, zvars>>

\* findmotorid.py lines 27-46, one iteration: flush_bus, client.read_param;
\* "except Exception: pass"
ScanProbe ==
    /\ script = "findmotorid_main" /\ pc = "n_scan"
    /\ probed' = Append(probed, idx)
    /\ \E ok \in ClientResults(idx) :
           found_ids' = IF ok THEN Append(found_ids, idx) ELSE found_ids
    /\ IF idx < SCAN_LAST_ID
       THEN idx' = idx + 1 /\ pc' = "n_scan"
       ELSE idx' = 0 /\ pc' = "n_report"
    /\ UNCHANGED bus
    /\ UNCHANGED <<pvars, cfgvars, fvars, scanfixed>>

\* findmotorid.py lines 48-55: the report and bus.shutdown()
ScanReport ==
    /\ script = "findmotorid_main" /\ pc = "n_report"
    /\ bus' = "shutdown"
    /\ pc' = "exit"
    /\ UNCHANGED <<idx, probed, found_ids>>
    /\ UNCHANGED <<pvars, cfgvars, fvars, scanfixed>>

SweepNext ==
    \/ SweepEnable \/ SweepPoll \/ SweepSleep \/ SweepDisable \/ SweepInterrupt
    \/ ScanProbe \/ ScanReport

\* findangles.py at line 66, findmotorid.py at line 27
SweepInit ==
    /\ \/ /\ script = "findangles_main" /\ pc = "w_enable"
          /\ present \in SweepPresentInputs
          /\ idx = 1
       \/ /\ script = "findmotorid_main" /\ pc = "n_scan"
          /\ present \in ScanPresentInputs
          /\ idx = SCAN_FIRST_ID
    /\ exc = "none"
    /\ bus = "open"
    /\ sent = <<>>
    /\ rxq = <<>>
    /\ msg = NoMsg
    /\ current_motor_state = [pos |-> 0, vel |-> 0, last_update |-> 0]
    /\ history = [time |-> <<>>, target |-> <<>>, actual |-> <<>>]
    /\ tick = 0
    /\ target_pos = 0
    /\ intr = 0
    /\ intrInExit = FALSE
    /\ NoCall
    /\ calls = 0
    /\ returned = {}
    /\ type_map = <<>>
    /\ type_params = MOTOR_TYPE_PARAMS
    /\ sleep_time = 0
    /\ expected = current_motor_state
    /\ visited = [enable |-> <<>>, poll |-> <<>>, shown |-> <<>>, disable |-> <<>>]
    /\ passes = 0
    /\ probed = <<>>
    /\ found_ids = <<>>
    /\ NoCodec
    /\ NoZero

SpecSweep == SweepInit /\ [][SweepNext]_vars

---------------------------------------------------------------------------
(* The unit codec and the arbitration ID of a control frame, applied to     *)
(* inputs: a range, a value, then a torque code and a motor ID.             *)

\* ranges <<v_min, v_max>>, each bound a decimal literal <<n, d>> = n/d: the
\* P, V, T, KP and KD ranges of profile O2, the T range of O5, and two other
\* ranges with v_min < v_max
CodecRanges ==
    { << <<-1257, 100>>, <<1257, 100>> >>,
      << <<-44, 1>>, <<44, 1>> >>,
      << <<-17, 1>>, <<17, 1>> >>,
      << <<0, 1>>, <<500, 1>> >>,
      << <<0, 1>>, <<5, 1>> >>,
      << <<-55, 10>>, <<55, 10>> >>,
      << <<0, 1>>, <<11, 10>> >>,
      << <<-20, 1>>, <<-198, 10>> >> }

\* values, as decimal literals
CodecValues ==
    { <<-2000, 1>>, <<-199, 10>>, <<-419, 100>>, <<0, 1>>, <<1, 2>>, <<1, 1>>,
      <<3, 1>>, <<628, 100>>, <<12345, 1000>>, <<2000, 1>> }

\* 16-bit torque codes
TorqueCodes == {0, 1, 255, 256, 4660, 32768, 65535}

\* motor IDs
CodecMotorIds == 1..127

codecfixed == <<script, exc, rxq, conly, pvars, cfgvars, fvars, svars, zvars>>

\* line 44: c_u16 = scale_value_to_u16(c_value, c_min, c_max)
CodecScale ==
    /\ script = "codec" /\ pc = "k_scale"
    /\ c_u16' = scale_value_to_u16_f64(c_value, c_min, c_max)
    /\ pc' = "k_unscale"
    /\ UNCHANGED <<c_min, c_max, c_value, c_float, c_torque_u16, c_motor_id,
                   c_arbitration_id>>
    /\ UNCHANGED codecfixed

\* line 47: c_float = unscale_u16_to_float(c_u16, c_min, c_max)
CodecUnscale ==
    /\ script = "codec" /\ pc = "k_unscale"
    /\ c_float' = unscale_u16_to_float_f64(c_u16, c_min, c_max)
    /\ pc' = "k_send"
    /\ UNCHANGED <<c_min, c_max, c_value, c_u16, c_torque_u16, c_motor_id,
                   c_arbitration_id>>
    /\ UNCHANGED codecfixed

\* lines 56-59: the arbitration ID for a torque code and a motor ID
CodecSend ==
    /\ script = "codec" /\ pc = "k_send"
    /\ \E t \in TorqueCodes, m \in CodecMotorIds :
           /\ c_torque_u16' = t
           /\ c_motor_id' = m
           /\ c_arbitration_id' = ControlArbitrationId(t, m)
    /\ pc' = "exit"
    /\ UNCHANGED <<c_min, c_max, c_value, c_u16, c_float>>
    /\ UNCHANGED codecfixed

CodecNext == CodecScale \/ CodecUnscale \/ CodecSend

CodecInit ==
    /\ script = "codec"
    /\ pc = "k_scale"
    /\ exc = "none"
    /\ bus = "unopened"
    /\ sent = <<>>
    /\ rxq = <<>>
    /\ msg = NoMsg
    /\ current_motor_state = [pos |-> 0, vel |-> 0, last_update |-> 0]
    /\ history = [time |-> <<>>, target |-> <<>>, actual |-> <<>>]
    /\ tick = 0
    /\ idx = 0
    /\ target_pos = 0
    /\ intr = 0
    /\ intrInExit = FALSE
    /\ NoCall
    /\ calls = 0
    /\ returned = {}
    /\ type_map = <<>>
    /\ type_params = MOTOR_TYPE_PARAMS
    /\ sleep_time = 0
    /\ expected = current_motor_state
    /\ NoSweep
    /\ NoZero
    /\ \E r \in CodecRanges :
           /\ c_min = FLiteral(r[1][1], r[1][2])
           /\ c_max = FLiteral(r[2][1], r[2][2])
           /\ c_value \in {FLiteral(v[1], v[2]) : v \in CodecValues}
                          \cup {FLiteral(r[1][1], r[1][2]), FLiteral(r[2][1], r[2][2])}
    /\ c_u16 = 0
    /\ c_float = FZero
    /\ c_torque_u16 = 0
    /\ c_motor_id = 0
    /\ c_arbitration_id = 0

SpecCodec == CodecInit /\ [][CodecNext]_vars

---------------------------------------------------------------------------
(* setpermzeros.py: zero every motor, then save every motor's configuration *)
(* A loop iteration is one step: flush_bus, the client call, the sleep.     *)

\* CAN_CONFIGS in the order the nested loops visit it
ZERO_MOTOR_IDS == <<1, 2, 3, 4, 5, 19, 18, 16, 17, 20>>

NumZeroMotors == Len(ZERO_MOTOR_IDS)

\* the channel of the k-th motor of ZERO_MOTOR_IDS
ZeroChannel(k) == IF k <= 5 THEN "can1" ELSE "can0"

\* what the operator can type at the prompt, and its .lower()
ZeroAnswers == {"yes", "YES", "no", ""}
Lower(answer) == IF answer = "YES" THEN "yes" ELSE answer

\* how an iteration can go: flush_bus raises, the client call raises (no
\* response, a garbled one), the client call returns
IterationOutcomes == {"flush_raises", "call_raises", "returns"}

ClientCall(cmd, k, ok) ==
    [cmd |-> cmd, channel |-> ZeroChannel(k), motor |-> ZERO_MOTOR_IDS[k], ok |-> ok]

zerofixed == <<sent, rxq, msg, current_motor_state, history, tick, target_pos,
               pvars, cfgvars, fvars, svars, kvars>>

\* lines 35-37: anything but "yes" returns before a bus is opened
ZeroPrompt ==
    /\ script = "setpermzeros" /\ pc = "z_prompt"
    /\ \E answer \in ZeroAnswers :
           pc' = IF Lower(answer) # "yes" THEN "exit" ELSE "z_open"
    /\ UNCHANGED <<script, exc, bus, idx, intr, intrInExit, client_calls>>
    /\ UNCHANGED zerofixed

\* lines 40-44, outside the try: opening a channel can raise
ZeroOpen ==
    /\ script = "setpermzeros" /\ pc = "z_open"
    /\ \/ bus' = "open" /\ pc' = "z_zero" /\ idx' = 1 /\ UNCHANGED exc
       \/ exc' = "Exception" /\ pc' = "exit" /\ UNCHANGED <<bus, idx>>
    /\ UNCHANGED <<script, intr, intrInExit, client_calls>>
    /\ UNCHANGED zerofixed

\* lines 50-55 with a failing zero_pos swallowed
ZeroPos_ContinueOnError ==
    /\ script = "setpermzeros" /\ pc = "z_zero"
    /\ \E o \in IterationOutcomes :
           /\ client_calls' = IF o = "flush_raises" THEN client_calls
                              ELSE Append(client_calls, ClientCall("zero_pos", idx, o = "returns"))
           /\ IF idx < NumZeroMotors
              THEN idx' = idx + 1 /\ pc' = "z_zero"
              ELSE idx' = idx /\ pc' = "z_pause"
    /\ UNCHANGED <<script, exc, bus, intr, intrInExit>>
    /\ UNCHANGED zerofixed

\* lines 50-55, one iteration; an exception goes to line 73, then to the
\* finally block
ZeroPos ==
    /\ script = "setpermzeros" /\ pc = "z_zero"
    /\ \E o \in IterationOutcomes :
           /\ client_calls' = IF o = "flush_raises" THEN client_calls
                              ELSE Append(client_calls, ClientCall("zero_pos", idx, o = "returns"))
           /\ IF o # "returns"
              THEN idx' = 1 /\ pc' = "z_finally"
              ELSE IF idx < NumZeroMotors
                   THEN idx' = idx + 1 /\ pc' = "z_zero"
                   ELSE idx' = idx /\ pc' = "z_pause"
    /\ UNCHANGED <<script, exc, bus, intr, intrInExit>>
    /\ UNCHANGED zerofixed

\* line 57
ZeroPause ==
    /\ script = "setpermzeros" /\ pc = "z_pause"
    /\ pc' = "z_save"
    /\ idx' = 1
    /\ UNCHANGED <<script, exc, bus, intr, intrInExit, client_calls>>
    /\ UNCHANGED zerofixed

\* lines 63-68, one iteration
ZeroSave ==
    /\ script = "setpermzeros" /\ pc = "z_save"
    /\ \E o \in IterationOutcomes :
           /\ client_calls' = IF o = "flush_raises" THEN client_calls
                              ELSE Append(client_calls,
                                          ClientCall("save_configuration", idx, o = "returns"))
           /\ IF o # "returns"
              THEN idx' = 1 /\ pc' = "z_finally"
              ELSE IF idx < NumZeroMotors
                   THEN idx' = idx + 1 /\ pc' = "z_save"
                   ELSE idx' = 1 /\ pc' = "z_finally"
    /\ UNCHANGED <<script, exc, bus, intr, intrInExit>>
    /\ UNCHANGED zerofixed

\* lines 80-85, one iteration: "except Exception: pass" around client.disable;
\* after the last one main() returns, or a pending KeyboardInterrupt goes on,
\* and the atexit handlers shut the buses down
ZeroDisable ==
    /\ script = "setpermzeros" /\ pc = "z_finally"
    /\ \E ok \in BOOLEAN :
           client_calls' = Append(client_calls, ClientCall("disable", idx, ok))
    /\ IF idx < NumZeroMotors
       THEN idx' = idx + 1 /\ pc' = "z_finally" /\ UNCHANGED bus
       ELSE idx' = idx /\ pc' = "exit" /\ bus' = "shutdown"
    /\ UNCHANGED <<script, exc, intr, intrInExit>>
    /\ UNCHANGED zerofixed

\* Ctrl+C: inside the try it is not an Exception, so the finally block runs
\* and it propagates; inside the finally block it ends the block
ZeroInterrupt ==
    /\ script = "setpermzeros" /\ pc \in {"z_open", "z_zero", "z_pause", "z_save", "z_finally"}
    /\ intr < MaxInterrupts
    /\ intr' = intr + 1
    /\ exc' = "KeyboardInterrupt"
    /\ IF pc \in {"z_zero", "z_pause", "z_save"}
       THEN pc' = "z_finally" /\ idx' = 1 /\ UNCHANGED <<bus, intrInExit>>
       ELSE /\ pc' = "exit"
            /\ idx' = idx
            /\ bus' = IF bus = "open" THEN "shutdown" ELSE bus
            /\ intrInExit' = (pc = "z_finally")
    /\ UNCHANGED <<script, client_calls>>
    /\ UNCHANGED zerofixed

ZeroNext ==
    \/ ZeroPrompt \/ ZeroOpen \/ ZeroPos \/ ZeroPause \/ ZeroSave \/ ZeroDisable
    \/ ZeroInterrupt

\* main() at line 35
ZeroInit ==
    /\ script = "setpermzeros"
    /\ pc = "z_prompt"
    /\ exc = "none"
    /\ bus = "unopened"
    /\ sent = <<>>
    /\ rxq = <<>>
    /\ msg = NoMsg
    /\ current_motor_state = [pos |-> 0, vel |-> 0, last_update |-> 0]
    /\ history = [time |-> <<>>, target |-> <<>>, actual |-> <<>>]
    /\ tick = 0
    /\ idx = 0
    /\ target_pos = 0
    /\ intr = 0
    /\ intrInExit = FALSE
    /\ NoCall
    /\ calls = 0
    /\ returned = {}
    /\ type_map = <<>>
    /\ type_params = MOTOR_TYPE_PARAMS
    /\ sleep_time = 0
    /\ expected = current_motor_state
    /\ NoSweep
    /\ NoCodec
    /\ NoZero

SpecZero == ZeroInit /\ [][ZeroNext]_vars

---------------------------------------------------------------------------
(* Properties of the sweeps *)

\* C11: a motor that does not answer (or keeps failing) does not end a sweep.
\* Unless the operator interrupts, findangles.py leaves its enable phase only
\* after the enable step of every motor, and ends a polling pass only after
\* every motor was polled; the scan probes 1, 2, ..., 127 in this order and
\* ends only after 127.
C11_SweepNotAborted ==
    /\ (script = "findangles_main" /\ intr = 0 /\ pc # "w_enable")
           => visited.enable = SWEEP_MOTOR_IDS
    /\ (script = "findangles_main" /\ pc = "w_sleep")
           => visited.poll = SWEEP_MOTOR_IDS
    /\ script = "findmotorid_main" =>
           /\ probed = [i \in 1..Len(probed) |-> i]
           /\ pc \in {"n_report", "exit"} => Len(probed) = SCAN_LAST_ID

---------------------------------------------------------------------------
(* Properties of the param helpers *)

C7_WriteAtMostN ==
    op = "write" =>
        /\ exc = "none" /\ pc # "exit"
        /\ Len(outcomes) <= retries
        /\ \A i \in 1..(Len(outcomes) - 1) : ~outcomes[i].ok
        /\ pc = "p_return" => (AnyOk(outcomes) \/ Len(outcomes) = retries)

\* write_param failed once and then succeeded, with retries=3: the third
\* attempt is not made
C7_Witness ==
    /\ pc = "p_return" /\ op = "write" /\ retries = 3
    /\ Len(outcomes) = 2 /\ ~outcomes[1].ok /\ outcomes[2].ok

WriteReturns == {r \in returned : r.op = "write"}

C9_FlushedBeforeRequest ==
    /\ pc = "p_call" => oldLeft = 0
    /\ ~staleReturned

\* a retry whose flush dropped two frames left over from before, with a fresh
\* frame queued by the time the primitive is invoked
C9_Witness ==
    /\ pc = "p_call" /\ attempt >= 1 /\ oldAtStart >= 2 /\ oldLeft = 0
    /\ rxq # <<>>

\* C10: every recv of flush_bus uses timeout 0, so flush_bus never blocks on
\* an empty queue waiting for more data: it returns as soon as it sees the
\* queue empty.
C10_FlushZeroWait == pc # "p_flush_wait"

---------------------------------------------------------------------------
(* Properties of the unit codec and of the arbitration ID *)

\* v clamped to [v_min, v_max]
Clamped(v, v_min, v_max) ==
    IF FCmp(v, v_min) < 0 THEN v_min ELSE IF FCmp(v, v_max) > 0 THEN v_max ELSE v

OutOfRange == FCmp(c_value, c_min) < 0 \/ FCmp(c_value, c_max) > 0

C22_EndpointsExact ==
    (script = "codec" /\ pc = "k_unscale") =>
        /\ FCmp(c_value, c_min) = 0 => c_u16 = 0
        /\ FCmp(c_value, c_max) = 0 => c_u16 = U16

\* C23: for a value inside the range, decode(encode(v)) differs from v by at
\* most (v_max - v_min) / 65535; compared exactly, as
\* 65535 * |decoded - v| <= v_max - v_min
C23_RoundTripWithinOneStep ==
    (script = "codec" /\ pc = "k_send" /\ ~OutOfRange) =>
        FCmp(FExactMul(F65535, FAbs(FExactSub(c_float, c_value))),
             FExactSub(c_max, c_min)) <= 0

\* C24: the arbitration ID is (0x01 << 24) | (t << 8) | motorId: the three
\* fields do not overlap, the ID fits 29 bits, each field is recovered by
\* shifting and masking, and motorId 5 with t = 0x1234 gives 0x01123405
C24_ArbitrationIdLayout ==
    (script = "codec" /\ pc = "exit") =>
        /\ c_arbitration_id = MUX_CONTROL * Shift24 + c_torque_u16 * 256 + c_motor_id
        /\ c_arbitration_id < 2^29
        /\ c_arbitration_id \div Shift24 = MUX_CONTROL
        /\ (c_arbitration_id \div 256) % 65536 = c_torque_u16
        /\ c_arbitration_id % 256 = c_motor_id
        /\ (c_motor_id = 5 /\ c_torque_u16 = 4660) => c_arbitration_id = 17970181

\* the ID for motorId 5 and torque code 0x1234 has been built
C24_Witness ==
    /\ script = "codec" /\ pc = "exit"
    /\ c_motor_id = 5 /\ c_torque_u16 = 4660
    /\ c_arbitration_id = 17970181

---------------------------------------------------------------------------
(* Properties of fast.py's history *)

\* the control frames bus.send has accepted
ControlFramesSent == Cardinality({k \in 1..Len(sent) : MuxOf(sent[k]) = MUX_CONTROL})

IsPrefix(s, t) == Len(s) <= Len(t) /\ SubSeq(t, 1, Len(s)) = s

FastRecording == {"f_rec_time", "f_rec_target", "f_rec_actual"}

\* C25: the history only grows by appending, and outside the three append
\* statements of a tick it holds one record {time, target, actual} for each
\* control frame sent
C25_HistoryAppendOnly ==
    /\ [][script = "fast" =>
              /\ IsPrefix(history.time, history'.time)
              /\ IsPrefix(history.target, history'.target)
              /\ IsPrefix(history.actual, history'.actual)]_vars
    /\ []((script = "fast" /\ pc \notin FastRecording) =>
              /\ Len(history.time) = ControlFramesSent
              /\ Len(history.target) = ControlFramesSent
              /\ Len(history.actual) = ControlFramesSent)

\* C26: once the loop has exited, the three sequences of the history have the
\* same length
C26_EqualLengthsAtLoopExit ==
    (script = "fast" /\ pc \in FastFinally \cup {"exit"}) =>
        /\ Len(history.time) = Len(history.target)
        /\ Len(history.target) = Len(history.actual)

---------------------------------------------------------------------------
(* Properties of setpermzeros.py *)

Issued(cmd) == {j \in 1..Len(client_calls) : client_calls[j].cmd = cmd}

\* C27: a save_configuration is issued only after zero_pos has returned for
\* every motor of every bus; after a failed zero_pos no save_configuration is
\* issued at all, and after a failed save_configuration no further one is
C27_SaveOnlyAfterAllZeroed ==
    script = "setpermzeros" =>
        /\ \A j \in Issued("save_configuration") :
               /\ \A k \in 1..NumZeroMotors :
                      \E i \in Issued("zero_pos") :
                          /\ i < j
                          /\ client_calls[i].motor = ZERO_MOTOR_IDS[k]
                          /\ client_calls[i].ok
               /\ \A i \in Issued("save_configuration") : i < j => client_calls[i].ok
        /\ (\E i \in Issued("zero_pos") : ~client_calls[i].ok) =>
               Issued("save_configuration") = {}

\* the script has ended after the third save_configuration failed: ten
\* zero_pos calls and three save_configuration calls were issued
C27_Witness ==
    /\ script = "setpermzeros" /\ pc = "exit"
    /\ Cardinality(Issued("zero_pos")) = NumZeroMotors
    /\ Cardinality(Issued("save_configuration")) = 3
    /\ \E j \in Issued("save_configuration") :
           client_calls[j].motor = ZERO_MOTOR_IDS[3] /\ ~client_calls[j].ok

====
